---- MODULE Spec2Model ----
(***************************************************************************)
(* Model of the FINAL_ORDERS delivery pipeline:                            *)
(*   daily_delivery_automation.py        (schedule filter, daily run)      *)
(*   POST_create_quote_id_final.py       (quote stage)                     *)
(*   send_order_with_quote_id_final.py   (stage bridge, order stage)       *)
(*                                                                         *)
(* Python values are modelled as strings.  NONE is Python's None (an empty *)
(* spreadsheet cell after sheet_to_json.normalize_record), ABSENT is a key *)
(* that the dict does not have, and "" is the empty string.                *)
(***************************************************************************)
EXTENDS Integers, Sequences, FiniteSets, TLC

\* ------------------------------------------------------------------ bounds
\* Longest list of loaded records (daily run) / of quote successes (file run).
MaxOrders == 2

\* Seconds the clock can advance during a run.
MaxClock == 1

\* Runs of the daily entry point on one date.
MaxRuns == 2

\* Calls of get_bearer_token that are followed.
MaxTokenCalls == 2

\* Longest list of existing orders the scheduler has loaded.
MaxExisting == 2

\* ------------------------------------------------------------ Python values
NONE == "<None>"
ABSENT == "<absent>"

\* dict.get(key, default): the default only replaces a key that is absent.
Get(d, key, default) == IF d[key] = ABSENT THEN default ELSE d[key]

\* Python truthiness of a str-or-None value (`not x`, `if x:`).
Truthy(v) == v \notin {ABSENT, NONE, ""}

\* `k not in row or row[k] in (None, "")`
MissingField(row, k) == row[k] \in {ABSENT, NONE, ""}

\* float(x) succeeds (no ValueError / TypeError) for these cell values.
NumericValues == {"42.69", "23.32", "95.5", "-200.0"}
FloatOk(v) == v \in NumericValues
\* float(x), in hundredths
FloatOf(v) ==
  CASE v = "42.69" -> 4269
    [] v = "23.32" -> 2332
    [] v = "95.5" -> 9550
    [] v = "-200.0" -> -20000
    [] OTHER -> 0

\* isinstance(x, str) and x.endswith("Z")
EndsWithZ(v) == v \in {"2030-01-01T10:00:00Z", "2020-01-01T10:00:00Z", "notatimeZ"}

\* "@" in email and "." in email.split("@")[-1]
HasAt(e) == e \in {"ana@x.com", "bob@y.org", "nodot@x", "a.b@x"}
DottedDomain(e) == e \in {"ana@x.com", "bob@y.org", "nodomain.com"}

\* len(str(phone)) for the phone values of the model
PhoneLen(p) ==
  CASE p = "+359888111222" -> 13
    [] p = "+359888333444" -> 13
    [] p = "1234567" -> 7
    [] p = "12345678" -> 8
    [] OTHER -> 0

\* len(pickupAddressBookId) for the identifiers of the model
PickupIdLen(v) ==
  CASE v = "12345678-1234-1234-1234-123456789012" -> 36
    [] v = "87654321-4321-4321-4321-210987654321" -> 36
    [] v = "short-id" -> 8
    [] OTHER -> 0

\* int(order.get('deliveryFrequency', 0)): the integer, or a raised
\* ValueError/TypeError.  Cell values are written as Python literals.
FreqValues == {"3", "5", "'3'", "'7'", "0", "7", "'abc'", "3.7", NONE, ABSENT}
IntOfFrequency(v) ==
  CASE v \in {"3", "'3'", "3.7"} -> [ok |-> TRUE, val |-> 3]
    [] v = "5" -> [ok |-> TRUE, val |-> 5]
    [] v \in {"7", "'7'"} -> [ok |-> TRUE, val |-> 7]
    [] v \in {"0", ABSENT} -> [ok |-> TRUE, val |-> 0]
    [] OTHER -> [ok |-> FALSE, val |-> 0]

\* ------------------------------------------------------------ order records
\* A complete FINAL_ORDERS row, delivered three times a week.
RowAna ==
  [client_id |-> "C001", client_name |-> "Ana", client_phone |-> "+359888111222",
   client_email |-> "ana@x.com", deliveryRawAddress |-> "Sofia 1",
   deliveryLattitude |-> "42.69", deliveryLongitude |-> "23.32",
   deliveryDetails |-> "floor 2",
   pickupAddressBookId |-> "12345678-1234-1234-1234-123456789012",
   pickup_time_utc |-> "2030-01-01T10:00:00Z", restaurant_name |-> "R1",
   order_id |-> "Lunch", deliveryFrequency |-> "3", pickup_code |-> "P1",
   ADDRESS_CITY_NAME |-> "Sofia", ADDRESS_COUNTRY |-> "BG",
   Address_postal_code |-> "1000"]

\* A complete row of another client, five days a week, without the optional
\* columns (order_id, deliveryDetails, city, ...).
RowBob ==
  [RowAna EXCEPT !.client_id = "C002", !.client_name = "Bob",
     !.client_phone = "+359888333444", !.client_email = "bob@y.org",
     !.deliveryRawAddress = "Plovdiv 2", !.deliveryDetails = ABSENT,
     !.pickupAddressBookId = "87654321-4321-4321-4321-210987654321",
     !.restaurant_name = "R2", !.order_id = ABSENT, !.deliveryFrequency = "5",
     !.pickup_code = ABSENT, !.ADDRESS_CITY_NAME = ABSENT,
     !.ADDRESS_COUNTRY = ABSENT, !.Address_postal_code = ABSENT]

\* A row whose e-mail cell holds the empty string.
RowNoEmail == [RowBob EXCEPT !.client_id = "C003", !.client_name = "Cyd", !.client_email = ""]

\* A row whose delivery address cell is empty (None after loading).
RowNoAddress == [RowAna EXCEPT !.client_id = "C004", !.client_name = "Dan", !.deliveryRawAddress = NONE]

\* A complete row with the unrecognised frequency "7".
RowFreq7 == [RowAna EXCEPT !.client_id = "C005", !.client_name = "Eve", !.deliveryFrequency = "'7'"]

\* The rows a loaded sheet is made of in the pipeline runs.
PipelineRows == {RowAna, RowBob, RowNoEmail, RowNoAddress, RowFreq7}

\* The rows of the schedule-filter runs: every frequency cell value.
FilterRows == {[RowAna EXCEPT !.deliveryFrequency = f] : f \in FreqValues}

\* Sequences over S of length 0..n
SeqsUpTo(S, n) == UNION {[1..k -> S] : k \in 0..n}

\* ------------------------------------------------------- schedule filter
\* DELIVERY_FREQUENCY_3_DAYS / DELIVERY_FREQUENCY_5_DAYS (0 = Monday)
DELIVERY_FREQUENCY_3_DAYS == {0, 2, 4}
DELIVERY_FREQUENCY_5_DAYS == {0, 1, 2, 3, 4}
Weekdays == 0..6

\* Fault variant of should_process_client: the weekday read 1-based
\* (isoweekday, 1 = Monday) against the 0-based day sets.
should_process_client_isoweekday(delivery_frequency, current_weekday) ==
  IF current_weekday + 1 > 4
    THEN [due |-> FALSE, warned |-> FALSE]
    ELSE IF delivery_frequency = 3
      THEN [due |-> (current_weekday + 1) \in DELIVERY_FREQUENCY_3_DAYS, warned |-> FALSE]
      ELSE IF delivery_frequency = 5
        THEN [due |-> (current_weekday + 1) \in DELIVERY_FREQUENCY_5_DAYS, warned |-> FALSE]
        ELSE [due |-> FALSE, warned |-> TRUE]

\* should_process_client(delivery_frequency, current_weekday): the returned
\* bool, and whether logger.warning was called.
should_process_client(delivery_frequency, current_weekday) ==
  IF current_weekday > 4
    THEN [due |-> FALSE, warned |-> FALSE]
    ELSE IF delivery_frequency = 3
      THEN [due |-> current_weekday \in DELIVERY_FREQUENCY_3_DAYS, warned |-> FALSE]
      ELSE IF delivery_frequency = 5
        THEN [due |-> current_weekday \in DELIVERY_FREQUENCY_5_DAYS, warned |-> FALSE]
        ELSE [due |-> FALSE, warned |-> TRUE]

\* One iteration of the loop of filter_orders_for_today: the conversion of the
\* frequency cell inside try/except, then should_process_client.
\* keep: the order is appended; warned: a warning was logged (by
\* should_process_client, or by the except clause, which then continues).
FilterDecision(order, current_weekday) ==
  LET conv == IntOfFrequency(order.deliveryFrequency)
      r == should_process_client(conv.val, current_weekday)
  IN IF conv.ok
       THEN [keep |-> r.due, warned |-> r.warned]
       ELSE [keep |-> FALSE, warned |-> TRUE]

\* ------------------------------------------------------------ quote stage
RequiredFields ==
  <<"client_id", "client_name", "client_phone", "client_email",
    "deliveryRawAddress", "deliveryLattitude", "deliveryLongitude",
    "pickupAddressBookId", "pickup_time_utc", "restaurant_name">>

\* validate_row(row): NONE, or the first violation found.
validate_row(row) ==
  IF \E i \in 1..Len(RequiredFields) : MissingField(row, RequiredFields[i])
    THEN "Missing required fields"
  ELSE IF ~(FloatOk(row.deliveryLattitude) /\ FloatOk(row.deliveryLongitude))
    THEN "deliveryLattitude/deliveryLongitude must be numeric"
  ELSE IF ~EndsWithZ(row.pickup_time_utc)
    THEN "pickup_time_utc must be ISO8601 UTC string ending with 'Z'"
  ELSE IF ~HasAt(row.client_email) \/ ~DottedDomain(row.client_email)
    THEN "client_email must be a valid email format"
  ELSE IF PhoneLen(row.client_phone) < 8
    THEN "client_phone must be at least 8 characters"
  ELSE IF PickupIdLen(row.pickupAddressBookId) < 30
    THEN "pickupAddressBookId must be a valid UUID format"
  ELSE NONE

\* Fault variant of row_to_payload: latitude and longitude change places.
row_to_payload_swapped(row) ==
  [pickupId |-> row.pickupAddressBookId,
   pickupTime |-> row.pickup_time_utc,
   rawAddress |-> row.deliveryRawAddress,
   latitude |-> FloatOf(row.deliveryLongitude),
   longitude |-> FloatOf(row.deliveryLattitude),
   details |-> Get(row, "deliveryDetails", "")]

\* row_to_payload(row) raises: KeyError for a column the row does not have,
\* ValueError/TypeError from float() for a cell that is not a number.
row_to_payload_raises(row) ==
  \/ \E k \in {"pickupAddressBookId", "pickup_time_utc", "deliveryRawAddress",
               "deliveryLattitude", "deliveryLongitude"} : row[k] = ABSENT
  \/ ~FloatOk(row.deliveryLattitude)
  \/ ~FloatOk(row.deliveryLongitude)

\* row_to_payload(row): the quote request.
row_to_payload(row) ==
  [pickupId |-> row.pickupAddressBookId,
   pickupTime |-> row.pickup_time_utc,
   rawAddress |-> row.deliveryRawAddress,
   latitude |-> FloatOf(row.deliveryLattitude),
   longitude |-> FloatOf(row.deliveryLongitude),
   details |-> Get(row, "deliveryDetails", "")]

\* The print block that opens each iteration of process_orders_final slices
\* row.get('deliveryRawAddress', 'Unknown')[:50]: a TypeError when the cell is
\* None (the default only covers an absent key).
HeaderPrintRaises(row) == row.deliveryRawAddress = NONE

\* Fault variant of ClientDetailsOf: the e-mail is looked up under a key the
\* sheet does not have, so its default is what every success carries.
ClientDetailsOf_email_default(row) ==
  [client_id |-> Get(row, "client_id", "Unknown"),
   name |-> Get(row, "client_name", "Unknown Client"),
   phone |-> Get(row, "client_phone", "Unknown Phone"),
   email |-> "Unknown Email"]

\* Fault variant of ClientDetailsOf: the contact columns looked up under keys
\* the sheet does not have, so every lookup yields its default.
ClientDetailsOf_defaults(row) ==
  [client_id |-> Get(row, "client_id", "Unknown"),
   name |-> "Unknown Client",
   phone |-> "Unknown Phone",
   email |-> "Unknown Email"]

\* The three context sub-records built from the row on a quote success.
ClientDetailsOf(row) ==
  [client_id |-> Get(row, "client_id", "Unknown"),
   name |-> Get(row, "client_name", "Unknown Client"),
   phone |-> Get(row, "client_phone", "Unknown Phone"),
   email |-> Get(row, "client_email", "Unknown Email")]

RestaurantDetailsOf(row) ==
  [name |-> Get(row, "restaurant_name", "Unknown Restaurant"),
   pickup_address_book_id |-> Get(row, "pickupAddressBookId", "Unknown")]

OrderDetailsOf(row) ==
  [order_description |-> Get(row, "order_id", "Unknown"),
   delivery_frequency |-> Get(row, "deliveryFrequency", "0"),
   pickup_code |-> Get(row, "pickup_code", "Unknown"),
   city |-> Get(row, "ADDRESS_CITY_NAME", "Unknown"),
   country |-> Get(row, "ADDRESS_COUNTRY", "Unknown"),
   postal_code |-> Get(row, "Address_postal_code", "Unknown")]

\* The entry appended to `successes` for a 2xx quote response.
QuoteSuccess(i, row, response) ==
  [index |-> i, row |-> row, response |-> response,
   client_details |-> ClientDetailsOf(row),
   restaurant_details |-> RestaurantDetailsOf(row),
   order_details |-> OrderDetailsOf(row)]

\* The entry appended to `failures`.
QuoteFailure(i, row, reason) == [index |-> i, row |-> row, reason |-> reason]

\* Fault variant of SuccessRate: the ratio, not the percentage.
SuccessRate_ratio(nsucc, total) == IF total > 0 THEN <<nsucc, total>> ELSE <<0, 1>>

\* success_rate of a stage summary: (percentage, or 0 for an empty batch).
\* Kept as the exact fraction <<numerator * 100, denominator>>.
SuccessRate(nsucc, total) == IF total > 0 THEN <<nsucc * 100, total>> ELSE <<0, 1>>

\* ------------------------------------------------------------ stage bridge
\* Fault variant of ContextOf: client_details rebuilt from the row instead of
\* carried over from the success entry.
ContextOf_rebuilt(success, index) ==
  [quote_id |-> success.response.quoteId,
   original_row |-> success.row,
   quote_response |-> success.response,
   client_details |-> ClientDetailsOf(success.row),
   restaurant_details |-> success.restaurant_details,
   order_details |-> success.order_details,
   index |-> index]

\* The context built from one quote success (both bridges build the same
\* keys; they differ in `index` and in how a missing quoteId is treated).
ContextOf(success, index) ==
  [quote_id |-> success.response.quoteId,
   original_row |-> success.row,
   quote_response |-> success.response,
   client_details |-> success.client_details,
   restaurant_details |-> success.restaurant_details,
   order_details |-> success.order_details,
   index |-> index]

\* extract_quote_ids_from_successes(successes): entries whose quoteId is
\* missing or empty are skipped (with a printed warning).
RECURSIVE extract_quote_ids_from_successes(_)
extract_quote_ids_from_successes(successes) ==
  IF successes = <<>> THEN <<>>
  ELSE LET success == Head(successes)
           rest == extract_quote_ids_from_successes(Tail(successes))
       IN IF Truthy(success.response.quoteId)
            THEN <<ContextOf(success, success.index)>> \o rest
            ELSE rest

\* The inline extraction of process_daily_orders: success['response']['quoteId']
\* raises KeyError when the key is missing; index is len(quote_data_list).
DailyExtractRaises(successes) ==
  \E k \in 1..Len(successes) : successes[k].response.quoteId = ABSENT

DailyExtract(successes) ==
  [k \in 1..Len(successes) |-> ContextOf(successes[k], k - 1)]

\* ------------------------------------------------------------ order stage
\* int(time.time()) when the model's clock reads 0.
EpochAtStart == 1700000000

\* str(index) of a context's index (an int, or None for a stored success
\* without the key).
StrOfIndex(index) == IF index \in Int THEN ToString(index) ELSE "None"

\* f"ORD{int(time.time())}{index}"
PickupOrderCode(time_now, index) ==
  "ORD" \o ToString(EpochAtStart + time_now) \o StrOfIndex(index)

\* Fault variant of create_order_payload: missing contact fields replaced by
\* fixed defaults instead of raising.
create_order_payload_defaults(quote_data, client_details, time_now) ==
  [raised |-> FALSE,
   contact |-> [name |-> IF Truthy(client_details.name) THEN client_details.name ELSE "Default Client",
                phone |-> IF Truthy(client_details.phone) THEN client_details.phone ELSE "+1234567890",
                email |-> IF Truthy(client_details.email) THEN client_details.email ELSE "client@example.com"],
   pickupOrderCode |-> PickupOrderCode(time_now, quote_data.index),
   description |-> Get(quote_data.original_row, "order_id", "Food delivery order")]

\* create_order_payload(quote_data, client_details): raises ValueError when a
\* contact field is missing or empty, else the order request.
create_order_payload(quote_data, client_details, time_now) ==
  IF ~Truthy(client_details.name) \/ ~Truthy(client_details.phone) \/ ~Truthy(client_details.email)
    THEN [raised |-> TRUE,
          contact |-> [name |-> NONE, phone |-> NONE, email |-> NONE],
          pickupOrderCode |-> NONE, description |-> NONE]
    ELSE [raised |-> FALSE,
          contact |-> [name |-> client_details.name,
                       phone |-> client_details.phone,
                       email |-> client_details.email],
          pickupOrderCode |-> PickupOrderCode(time_now, quote_data.index),
          description |-> Get(quote_data.original_row, "order_id", "Food delivery order")]

\* The entry appended to successful_orders / failed_orders.
OrderSuccess(i, ctx, response, payload) ==
  [index |-> i, quote_id |-> ctx.quote_id, original_row |-> ctx.original_row,
   order_response |-> response, pickup_order_code |-> payload.pickupOrderCode,
   client_details |-> ctx.client_details,
   restaurant_details |-> ctx.restaurant_details,
   order_details |-> ctx.order_details]

OrderFailure(i, ctx, error) ==
  [index |-> i, quote_id |-> ctx.quote_id, original_row |-> ctx.original_row,
   error |-> error]

\* --------------------------------------------------------------- carrier
\* What one POST can do: a 2xx body (with a quote id, without the quoteId
\* key, with an empty quoteId), a non-2xx status, or a RequestException
\* (unreachable / timed out).
QuoteOutcomes == {"ok", "ok_no_id", "ok_empty_id", "rejected", "neterror"}
OrderOutcomes == {"ok", "rejected", "neterror"}

\* The quote id the carrier issues on its n-th quote.
CarrierQuoteId(n) == "q" \o ToString(n)

\* send_quote(payload) for a given carrier behaviour: (success, response).
send_quote(payload, outcome, n) ==
  CASE outcome = "ok" -> [success |-> TRUE, response |-> [quoteId |-> CarrierQuoteId(n)]]
    [] outcome = "ok_no_id" -> [success |-> TRUE, response |-> [quoteId |-> ABSENT]]
    [] outcome = "ok_empty_id" -> [success |-> TRUE, response |-> [quoteId |-> ""]]
    [] outcome = "rejected" -> [success |-> FALSE, response |-> [status |-> 400, error |-> "body"]]
    [] OTHER -> [success |-> FALSE, response |-> [error |-> "RequestException"]]

\* send_order_with_quote_id(quote_id, payload): (success, response).
send_order_with_quote_id(quote_id, payload, outcome) ==
  CASE outcome = "ok" -> [success |-> TRUE, response |-> [id |-> "order-" \o quote_id]]
    [] outcome = "rejected" -> [success |-> FALSE, response |-> [status |-> 400, error |-> "body"]]
    [] OTHER -> [success |-> FALSE, response |-> [error |-> "RequestException"]]

\* Rate limits a run is started with, in millionths of a call per second:
\* 2.0 (what the entry points pass) and 0.0005.
RateTwoPerSec == 2000000
Rates == {RateTwoPerSec, 500}

\* Fault variant of Delay: the rate is not clamped at 0.001.
Delay_unclamped(rate) == 1000000000 \div rate

\* delay = 1.0 / max(rate_limit_per_sec, 0.001), in milliseconds.
Delay(rate) == 1000000000 \div (IF rate > 1000 THEN rate ELSE 1000)

\* What get_bearer_token() returns when it returns: the cached or the newly
\* fetched access token.
BearerToken == "accessToken"

\* ------------------------------------------------------------ order logging
\* The logger process_orders_from_quotes_final sets up before its loop:
\* a GoogleSheetsLogger when Google Sheets logging is asked for with a URL
\* and can be constructed, an OrderLogger (local Excel) as the fallback and
\* when no URL is given, none when logging is off or the logging modules
\* could not be imported.  order_log is the logger's list of logged orders
\* (by quote id).
LoggerKinds == {"none", "excel", "sheets"}
NoLogger == [kind |-> "none", order_log |-> <<>>]
LoggerFor(log_orders, use_google_sheets, google_sheets_url, modules_imported, constructed) ==
  [kind |->
     IF ~log_orders THEN "none"
     ELSE IF use_google_sheets /\ Truthy(google_sheets_url) /\ modules_imported
       THEN (IF constructed THEN "sheets" ELSE "excel")
       ELSE IF modules_imported THEN "excel" ELSE "none",
   order_log |-> <<>>]

\* ------------------------------------------------------------ token service
\* The file at CACHE_PATH: absent, not parseable as JSON, or the JSON object
\* _write_cache wrote.
NoCache == [state |-> "absent", accessToken |-> NONE, expires_at |-> 0]
UnreadableCache == [state |-> "unreadable", accessToken |-> NONE, expires_at |-> 0]

\* Fault variant of write_cache: the token's whole lifetime is stored, with
\* no margin for clock skew.
write_cache_no_margin(token, expires_in, time_now) ==
  [state |-> "json", accessToken |-> token, expires_at |-> time_now + expires_in]

\* _write_cache(token, expires_in): the file's new content.
write_cache(token, expires_in, time_now) ==
  [state |-> "json", accessToken |-> token,
   expires_at |-> time_now + (IF expires_in - 15 > 0 THEN expires_in - 15 ELSE 0)]

\* _read_cache(): the dict, or None for a missing or unparseable file.
read_cache(file) == [found |-> file.state = "json", accessToken |-> file.accessToken,
                     expires_at |-> file.expires_at]

\* What the token endpoint can answer: 200 with accessToken and expires_in,
\* 200 with accessToken and no expires_in, 200 without accessToken, a
\* non-200 status, or no answer at all (RequestException).
ExpiresInValues == {10, 15, 16, 3600}
TokenResponses(token) ==
  {[status |-> 200, accessToken |-> token, has_expires_in |-> TRUE, expires_in |-> e] :
     e \in ExpiresInValues}
  \cup {[status |-> 200, accessToken |-> token, has_expires_in |-> FALSE, expires_in |-> 0],
        [status |-> 200, accessToken |-> ABSENT, has_expires_in |-> TRUE, expires_in |-> 3600],
        [status |-> 401, accessToken |-> ABSENT, has_expires_in |-> FALSE, expires_in |-> 0],
        [status |-> 0, accessToken |-> ABSENT, has_expires_in |-> FALSE, expires_in |-> 0]}

\* _fetch_new_token(): the token returned or the exception raised, and the
\* cache file afterwards.
fetch_new_token(file, response, time_now) ==
  IF response.status = 0
    THEN [returned |-> NONE, raised |-> "RequestException", cache |-> file]
  ELSE IF response.status # 200
    THEN [returned |-> NONE, raised |-> "HTTPError", cache |-> file]
  ELSE IF ~Truthy(response.accessToken)
    THEN [returned |-> NONE, raised |-> "RuntimeError", cache |-> file]
  ELSE [returned |-> response.accessToken, raised |-> NONE,
        cache |-> write_cache(response.accessToken,
                              IF response.has_expires_in THEN response.expires_in ELSE 3600,
                              time_now)]

\* get_bearer_token(force_refresh) on a given cache file at a given time,
\* with the token endpoint answering `response` if it is asked.
get_bearer_token_at(file, force_refresh, response, time_now) ==
  LET cached == read_cache(file)
  IN IF ~force_refresh /\ cached.found /\ cached.expires_at > time_now
       THEN [returned |-> cached.accessToken, raised |-> NONE, cache |-> file,
             fetched |-> FALSE]
       ELSE LET r == fetch_new_token(file, response, time_now)
            IN [returned |-> r.returned, raised |-> r.raised, cache |-> r.cache,
                fetched |-> TRUE]

\* ------------------------------------------------ scheduler with an index
\* The days orders are asked for, and date.isoformat() / strftime('%Y%m%d').
Days == {0, 1}
isoformat(d) == "2024-01-1" \o ToString(5 + d)
strftime_Ymd(d) == "2024011" \o ToString(5 + d)

\* What load_workbook_to_dict makes of the order_date cell of an Orders row
\* for day d: the text of a text cell, or, of a date cell, the timestamp's
\* isoformat() or the datetime object itself (written as its repr).
OrderDateCells(d) ==
  {isoformat(d),
   isoformat(d) \o "T00:00:00",
   "datetime.datetime(2024, 1, 1" \o ToString(5 + d) \o ", 0, 0)"}

\* The day an order_date cell stands for.
DayOfCell(cell) == CHOOSE d \in Days : cell \in OrderDateCells(d)

\* self.clients and self.restaurants after load_data: C001 with its
\* restaurant, C002 whose restaurant is not in the Restaurants sheet.
SchedulerClients ==
  [c \in {"C001", "C002"} |->
     [client_id |-> c, client_name |-> IF c = "C001" THEN "Ana" ELSE "Bob",
      restaurant_id |-> IF c = "C001" THEN "R1" ELSE "R9",
      order_time |-> "17:45"]]
SchedulerRestaurants ==
  [r \in {"R1"} |-> [restaurant_id |-> r, restaurant_name |-> "Rest 1"]]

\* Rows of the Orders sheet.
OrderStatuses == {"PENDING", "CONFIRMED", "IN_PROGRESS", "CANCELLED"}
ExistingOrderRows ==
  {[client_id |-> c, order_date |-> cell, order_status |-> st] :
     c \in {"C001", "C002"},
     cell \in UNION {OrderDateCells(d) : d \in Days},
     st \in OrderStatuses}

NoScheduler == [clients |-> <<>>, restaurants |-> <<>>, orders |-> <<>>]
NoScheduleCall == [made |-> FALSE, client_id |-> NONE, order_dates |-> <<>>, returned |-> <<>>]

\* The order record generate_orders_for_client builds for one date.
NewOrder(client, restaurant, d) ==
  [order_id |-> "ORD_" \o strftime_Ymd(d) \o "_" \o client.client_id,
   client_id |-> client.client_id,
   restaurant_id |-> restaurant.restaurant_id,
   order_date |-> isoformat(d),
   pickup_time_utc |-> isoformat(d) \o "T" \o client.order_time \o ":00Z",
   order_status |-> "PENDING"]

\* existing_order: any(...) over self.orders for one client and date.
existing_order(self_orders, client_id, d) ==
  \E k \in 1..Len(self_orders) :
    /\ self_orders[k].client_id = client_id
    /\ self_orders[k].order_date = isoformat(d)
    /\ self_orders[k].order_status \in {"PENDING", "CONFIRMED", "IN_PROGRESS"}

\* The loop of generate_orders_for_client over order_dates.
RECURSIVE GenerateFor(_, _, _, _)
GenerateFor(self, client, restaurant, order_dates) ==
  IF order_dates = <<>> THEN <<>>
  ELSE LET d == Head(order_dates)
           rest == GenerateFor(self, client, restaurant, Tail(order_dates))
       IN IF existing_order(self.orders, client.client_id, d)
            THEN rest
            ELSE <<NewOrder(client, restaurant, d)>> \o rest

\* generate_orders_for_client(client_id, order_dates): nothing for an
\* unknown client or a client whose restaurant is unknown.
generate_orders_for_client(self, client_id, order_dates) ==
  IF client_id \notin DOMAIN self.clients THEN <<>>
  ELSE LET client == self.clients[client_id]
       IN IF client.restaurant_id \notin DOMAIN self.restaurants THEN <<>>
          ELSE GenerateFor(self, client, self.restaurants[client.restaurant_id], order_dates)

\* ------------------------------------------------------------------ state
VARIABLES
  mode,               \* which entry point runs: "daily", "file" or "filter"
  rate_limit_per_sec, \* the run's rate limit, in millionths of a call per second
  order_logger,       \* the order stage's logger: its kind and its order_log
  cache,              \* token service: what the file at CACHE_PATH holds
  token_calls,        \* token service: the calls of get_bearer_token so far
  scheduler,          \* AutomatedOrderScheduler: clients, restaurants, orders
  schedule_call,      \* the last call of generate_orders_for_client
  run,                \* which run of the entry point this is (1 = the first)
  TOKEN,              \* the modules' TOKEN = get_bearer_token(), NONE before the import
  pc,                 \* where the run is
  weekday,            \* get_current_weekday()
  orders,             \* self.orders, the loaded rows
  fi,                 \* rows the filter loop has evaluated
  filtered_orders,    \* filtered_orders / today_orders
  filter_log,         \* per evaluated row: what the filter decided and logged
  qi,                 \* rows the quote loop has visited
  successes,          \* quote stage: successes
  failures,           \* quote stage: failures
  quote_data_list,    \* the contexts handed to the order stage
  oi,                 \* contexts the order loop has visited
  successful_orders,  \* order stage: successful_orders
  failed_orders,      \* order stage: failed_orders
  result,             \* what the run returned
  exc,                \* the exception that ended the run, or NONE
  log,                \* carrier calls and sleeps, in order
  quotes_issued,      \* quotes the carrier has issued
  now                 \* int(time.time()), in seconds since the run began

vars ==
  <<mode, cache, token_calls, scheduler, schedule_call, order_logger, rate_limit_per_sec, run, TOKEN, pc, weekday, orders, fi, filtered_orders, filter_log, qi, successes,
    failures, quote_data_list, oi, successful_orders, failed_orders, result,
    exc, log, quotes_issued, now>>

\* Entries of the log of what left the process: carrier calls and sleeps.
NoContact == [name |-> NONE, phone |-> NONE, email |-> NONE]
QuoteCall(i, res) ==
  [kind |-> "quote", index |-> i,
   quote_id |-> IF res.success THEN res.response.quoteId ELSE NONE,
   ok |-> res.success, contact |-> NoContact, description |-> NONE, delay |-> 0,
   authorization |-> TOKEN, run |-> run, pickupOrderCode |-> NONE]
OrderCall(i, ctx, payload, res) ==
  [kind |-> "order", index |-> i,
   quote_id |-> ctx.quote_id, ok |-> res.success,
   contact |-> payload.contact, description |-> payload.description, delay |-> 0,
   authorization |-> TOKEN, run |-> run, pickupOrderCode |-> payload.pickupOrderCode]
Sleep(delay) ==
  [kind |-> "sleep", index |-> 0, quote_id |-> NONE,
   ok |-> TRUE, contact |-> NoContact, description |-> NONE, delay |-> delay,
   authorization |-> NONE, run |-> run, pickupOrderCode |-> NONE]

NoResult ==
  [kind |-> "none", total_processed |-> 0, successful_orders |-> <<>>,
   failed_orders |-> <<>>, success_rate |-> <<0, 1>>, has_rate |-> FALSE]

\* Quote successes as a results file may hold them (the input of the order
\* stage's own entry point): complete entries, an entry whose client_details
\* lack the e-mail, an entry without client_details, an entry without quoteId.
FileSuccesses ==
  LET a == QuoteSuccess(1, RowAna, [quoteId |-> "q1"])
      b == QuoteSuccess(2, RowBob, [quoteId |-> "q2"])
  IN {a, b,
      [b EXCEPT !.client_details.email = ""],
      [a EXCEPT !.client_details =
         [client_id |-> ABSENT, name |-> ABSENT, phone |-> ABSENT, email |-> ABSENT]],
      [a EXCEPT !.response.quoteId = ABSENT]}

InitCommon ==
  /\ TOKEN = BearerToken
  /\ order_logger = NoLogger
  /\ run = 1
  /\ cache = NoCache
  /\ token_calls = <<>>
  /\ scheduler = NoScheduler
  /\ schedule_call = NoScheduleCall
  /\ fi = 0
  /\ filtered_orders = <<>>
  /\ filter_log = <<>>
  /\ qi = 0
  /\ failures = <<>>
  /\ quote_data_list = <<>>
  /\ oi = 0
  /\ successful_orders = <<>>
  /\ failed_orders = <<>>
  /\ result = NoResult
  /\ exc = NONE
  /\ log = <<>>
  /\ quotes_issued = 0
  /\ now = 0

\* run_daily_automation after load_data: the sheet's rows, today's weekday.
InitDaily ==
  /\ mode = "daily"
  /\ rate_limit_per_sec \in Rates
  /\ pc = "filter"
  /\ weekday \in Weekdays
  /\ orders \in SeqsUpTo(PipelineRows, MaxOrders)
  /\ successes = <<>>
  /\ InitCommon

\* The order stage's script: successes loaded from the results file.
InitFile ==
  /\ mode = "file"
  /\ rate_limit_per_sec = RateTwoPerSec
  /\ pc = "extract"
  /\ weekday = 0
  /\ orders = <<>>
  /\ successes \in SeqsUpTo(FileSuccesses, MaxOrders)
  /\ InitCommon

\* filter_orders_for_today called on its own over a loaded sheet.
InitFilter ==
  /\ mode = "filter"
  /\ rate_limit_per_sec = RateTwoPerSec
  /\ pc = "filter"
  /\ weekday \in Weekdays
  /\ orders \in SeqsUpTo(FilterRows, MaxOrders)
  /\ successes = <<>>
  /\ InitCommon

\* process_orders_final(rows, rate_limit_per_sec) called on a list of rows
\* (the empty list included).
InitQuoteCall ==
  /\ mode = "quote"
  /\ rate_limit_per_sec \in Rates
  /\ TOKEN = BearerToken
  /\ order_logger = NoLogger
  /\ run = 1
  /\ cache = NoCache
  /\ token_calls = <<>>
  /\ scheduler = NoScheduler
  /\ schedule_call = NoScheduleCall
  /\ pc = "quote"
  /\ weekday = 0
  /\ orders = <<>>
  /\ successes = <<>>
  /\ fi = 0
  /\ filtered_orders \in SeqsUpTo(PipelineRows, MaxOrders)
  /\ filter_log = <<>>
  /\ qi = 0
  /\ failures = <<>>
  /\ quote_data_list = <<>>
  /\ oi = 0
  /\ successful_orders = <<>>
  /\ failed_orders = <<>>
  /\ result = NoResult
  /\ exc = NONE
  /\ log = <<>>
  /\ quotes_issued = 0
  /\ now = 0

\* The contexts extract_quote_ids_from_successes makes of stored successes.
FileContexts ==
  {ContextOf(success, success.index) :
     success \in {f \in FileSuccesses : Truthy(f.response.quoteId)}}

\* process_orders_from_quotes_final(quote_data_list, rate_limit_per_sec)
\* called on a list of contexts (the empty list included).
InitOrderCall ==
  /\ mode = "order"
  /\ rate_limit_per_sec \in Rates
  /\ TOKEN = BearerToken
  /\ order_logger = NoLogger
  /\ run = 1
  /\ cache = NoCache
  /\ token_calls = <<>>
  /\ scheduler = NoScheduler
  /\ schedule_call = NoScheduleCall
  /\ pc = "order"
  /\ weekday = 0
  /\ orders = <<>>
  /\ successes = <<>>
  /\ fi = 0
  /\ filtered_orders = <<>>
  /\ filter_log = <<>>
  /\ qi = 0
  /\ failures = <<>>
  /\ quote_data_list \in SeqsUpTo(FileContexts, MaxOrders)
  /\ oi = 0
  /\ successful_orders = <<>>
  /\ failed_orders = <<>>
  /\ result = NoResult
  /\ exc = NONE
  /\ log = <<>>
  /\ quotes_issued = 0
  /\ now = 0

Init == InitDaily \/ InitFile

\* time.sleep(delay): the whole-second clock after a sleep of `delay`
\* milliseconds that began in second t (the clock is followed up to MaxClock).
AfterSleep(t, delay) ==
  LET whole == t + (delay \div 1000)
      Cap(x) == IF x > MaxClock THEN MaxClock ELSE x
  IN {Cap(whole), Cap(whole + 1)}

\* Fault variant of FilterStep: a due order is put in front of today's list
\* instead of appended to it.
FilterStep_prepends ==
  /\ pc = "filter"
  /\ fi < Len(orders)
  /\ LET order == orders[fi + 1]
         d == FilterDecision(order, weekday)
     IN /\ filtered_orders' = IF d.keep THEN <<order>> \o filtered_orders ELSE filtered_orders
        /\ filter_log' = Append(filter_log,
             [frequency |-> order.deliveryFrequency, keep |-> d.keep,
              warned |-> d.warned])
  /\ fi' = fi + 1
  /\ UNCHANGED <<mode, cache, token_calls, scheduler, schedule_call, order_logger, rate_limit_per_sec, run, TOKEN, pc, weekday, orders, qi, successes, failures,
                 quote_data_list, oi, successful_orders, failed_orders, result,
                 exc, log, quotes_issued, now>>

\* ---------------------------------------------------------------- actions
\* filter_orders_for_today: one iteration of `for order in self.orders`.
FilterStep ==
  /\ pc = "filter"
  /\ fi < Len(orders)
  /\ LET order == orders[fi + 1]
         d == FilterDecision(order, weekday)
     IN /\ filtered_orders' = IF d.keep THEN Append(filtered_orders, order) ELSE filtered_orders
        /\ filter_log' = Append(filter_log,
             [frequency |-> order.deliveryFrequency, keep |-> d.keep,
              warned |-> d.warned])
  /\ fi' = fi + 1
  /\ UNCHANGED <<mode, cache, token_calls, scheduler, schedule_call, order_logger, rate_limit_per_sec, run, TOKEN, pc, weekday, orders, qi, successes, failures,
                 quote_data_list, oi, successful_orders, failed_orders, result,
                 exc, log, quotes_issued, now>>

\* filter_orders_for_today returns.  In the daily run process_daily_orders
\* goes on: with no order for today it returns at once, else it calls
\* process_orders_final(today_orders).
FilterReturn ==
  /\ pc = "filter"
  /\ fi = Len(orders)
  /\ IF mode = "daily" /\ filtered_orders # <<>>
       THEN pc' = "quote" /\ result' = result
       ELSE /\ pc' = "done"
            /\ result' = [NoResult EXCEPT !.kind = IF mode = "daily" THEN "no_orders" ELSE "filtered"]
  /\ UNCHANGED <<mode, cache, token_calls, scheduler, schedule_call, order_logger, rate_limit_per_sec, run, TOKEN, weekday, orders, fi, filtered_orders, filter_log, qi,
                 successes, failures, quote_data_list, oi, successful_orders,
                 failed_orders, exc, log, quotes_issued, now>>

\* Fault variant of QuoteStep: the order for a quote is sent as soon as the
\* quote call succeeds, before the next record's quote call.
QuoteStep_pipelined ==
  /\ pc = "quote"
  /\ qi < Len(filtered_orders)
  /\ LET i == qi + 1
         row == filtered_orders[i]
     IN IF HeaderPrintRaises(row)
          THEN /\ pc' = "crashed"
               /\ exc' = "TypeError"
               /\ UNCHANGED <<qi, successes, failures, log, quotes_issued, now>>
          ELSE IF validate_row(row) # NONE
            THEN /\ failures' = Append(failures,
                       QuoteFailure(i, row, "Validation error: " \o validate_row(row)))
                 /\ qi' = i
                 /\ UNCHANGED <<pc, exc, successes, log, quotes_issued, now>>
            ELSE \E outcome \in QuoteOutcomes :
                 LET payload == row_to_payload(row)
                     n == quotes_issued + 1
                     res == send_quote(payload, outcome, n)
                     sleeps == i < Len(filtered_orders)
                     ctx == ContextOf(QuoteSuccess(i, row, res.response), i - 1)
                     order_payload == create_order_payload(ctx, ctx.client_details, now)
                     order_res == send_order_with_quote_id(ctx.quote_id, order_payload, "ok")
                 IN /\ quotes_issued' = IF outcome = "ok" THEN n ELSE quotes_issued
                    /\ IF res.success
                         THEN /\ successes' = Append(successes, QuoteSuccess(i, row, res.response))
                              /\ failures' = failures
                         ELSE /\ failures' = Append(failures, QuoteFailure(i, row, res.response))
                              /\ successes' = successes
                    /\ log' = log \o <<QuoteCall(i, res)>>
                                 \o (IF outcome = "ok"
                                       THEN <<OrderCall(i, ctx, order_payload, order_res)>>
                                       ELSE <<>>)
                                 \o (IF sleeps THEN <<Sleep(Delay(rate_limit_per_sec))>> ELSE <<>>)
                    /\ now' \in IF sleeps THEN AfterSleep(now, Delay(rate_limit_per_sec)) ELSE {now}
                    /\ qi' = i
                    /\ UNCHANGED <<pc, exc>>
  /\ UNCHANGED <<mode, cache, token_calls, scheduler, schedule_call, order_logger, rate_limit_per_sec, run, TOKEN, weekday, orders, fi, filtered_orders, filter_log,
                 quote_data_list, oi, successful_orders, failed_orders, result>>

\* Fault variant of QuoteStep: a quote call that fails is sent a second time.
QuoteStep_retries ==
  /\ pc = "quote"
  /\ qi < Len(filtered_orders)
  /\ LET i == qi + 1
         row == filtered_orders[i]
     IN IF HeaderPrintRaises(row)
          THEN \* TypeError in the print block: it leaves the loop and the run
               /\ pc' = "crashed"
               /\ exc' = "TypeError"
               /\ UNCHANGED <<qi, successes, failures, log, quotes_issued, now>>
          ELSE IF validate_row(row) # NONE
            THEN \* failure without a call; `continue` skips the sleep
                 /\ failures' = Append(failures,
                       QuoteFailure(i, row, "Validation error: " \o validate_row(row)))
                 /\ qi' = i
                 /\ UNCHANGED <<pc, exc, successes, log, quotes_issued, now>>
            ELSE \E outcome \in QuoteOutcomes :
                 LET payload == row_to_payload(row)
                     n == quotes_issued + 1
                     res == send_quote(payload, outcome, n)
                     sleeps == i < Len(filtered_orders)
                 IN /\ quotes_issued' = IF outcome = "ok" THEN n ELSE quotes_issued
                    /\ IF res.success
                         THEN /\ successes' = Append(successes, QuoteSuccess(i, row, res.response))
                              /\ failures' = failures
                         ELSE /\ failures' = Append(failures, QuoteFailure(i, row, res.response))
                              /\ successes' = successes
                    /\ log' = log \o (IF res.success THEN <<>> ELSE <<QuoteCall(i, res)>>)
                                 \o <<QuoteCall(i, res)>>
                                 \o (IF sleeps THEN <<Sleep(Delay(rate_limit_per_sec))>> ELSE <<>>)
                    /\ now' \in IF sleeps THEN AfterSleep(now, Delay(rate_limit_per_sec)) ELSE {now}
                    /\ qi' = i
                    /\ UNCHANGED <<pc, exc>>
  /\ UNCHANGED <<mode, cache, token_calls, scheduler, schedule_call, order_logger, rate_limit_per_sec, run, TOKEN, weekday, orders, fi, filtered_orders, filter_log,
                 quote_data_list, oi, successful_orders, failed_orders, result>>

\* process_orders_final: one iteration of `for i, row in enumerate(rows, 1)`.
QuoteStep ==
  /\ pc = "quote"
  /\ qi < Len(filtered_orders)
  /\ LET i == qi + 1
         row == filtered_orders[i]
     IN IF HeaderPrintRaises(row)
          THEN \* TypeError in the print block: it leaves the loop and the run
               /\ pc' = "crashed"
               /\ exc' = "TypeError"
               /\ UNCHANGED <<qi, successes, failures, log, quotes_issued, now>>
          ELSE IF validate_row(row) # NONE
            THEN \* failure without a call; `continue` skips the sleep
                 /\ failures' = Append(failures,
                       QuoteFailure(i, row, "Validation error: " \o validate_row(row)))
                 /\ qi' = i
                 /\ UNCHANGED <<pc, exc, successes, log, quotes_issued, now>>
            ELSE \E outcome \in QuoteOutcomes :
                 LET payload == row_to_payload(row)
                     n == quotes_issued + 1
                     res == send_quote(payload, outcome, n)
                     sleeps == i < Len(filtered_orders)
                 IN /\ quotes_issued' = IF outcome = "ok" THEN n ELSE quotes_issued
                    /\ IF res.success
                         THEN /\ successes' = Append(successes, QuoteSuccess(i, row, res.response))
                              /\ failures' = failures
                         ELSE /\ failures' = Append(failures, QuoteFailure(i, row, res.response))
                              /\ successes' = successes
                    /\ log' = IF sleeps THEN log \o <<QuoteCall(i, res), Sleep(Delay(rate_limit_per_sec))>>
                                        ELSE Append(log, QuoteCall(i, res))
                    /\ now' \in IF sleeps THEN AfterSleep(now, Delay(rate_limit_per_sec)) ELSE {now}
                    /\ qi' = i
                    /\ UNCHANGED <<pc, exc>>
  /\ UNCHANGED <<mode, cache, token_calls, scheduler, schedule_call, order_logger, rate_limit_per_sec, run, TOKEN, weekday, orders, fi, filtered_orders, filter_log,
                 quote_data_list, oi, successful_orders, failed_orders, result>>

\* quote_summary as process_orders_final returns it.
QuoteSummary ==
  [total |-> Len(successes) + Len(failures),
   successes |-> successes,
   failures |-> failures,
   success_rate |-> SuccessRate(Len(successes), Len(successes) + Len(failures))]

\* process_orders_final returns its summary to a direct caller.
QuoteReturn ==
  /\ mode = "quote"
  /\ pc = "quote"
  /\ qi = Len(filtered_orders)
  /\ pc' = "done"
  /\ result' = [kind |-> "quote_summary",
                total_processed |-> QuoteSummary.total,
                successful_orders |-> QuoteSummary.successes,
                failed_orders |-> QuoteSummary.failures,
                success_rate |-> QuoteSummary.success_rate,
                has_rate |-> TRUE]
  /\ UNCHANGED <<mode, cache, token_calls, scheduler, schedule_call, order_logger, rate_limit_per_sec, run, TOKEN, weekday, orders, fi, filtered_orders,
                 filter_log, qi, successes, failures, quote_data_list, oi,
                 successful_orders, failed_orders, exc, log, quotes_issued, now>>

\* Fault variant of DailyBridge: with no successful quote the run goes on to
\* the order stage and reports that stage's (empty) lists.
DailyBridge_always_orders ==
  /\ pc = "quote"
  /\ qi = Len(filtered_orders)
  /\ IF DailyExtractRaises(QuoteSummary.successes)
       THEN /\ pc' = "crashed"
            /\ exc' = "KeyError"
            /\ UNCHANGED <<result, quote_data_list>>
       ELSE /\ pc' = "order"
            /\ quote_data_list' = DailyExtract(QuoteSummary.successes)
            /\ UNCHANGED <<result, exc>>
  /\ UNCHANGED <<mode, cache, token_calls, scheduler, schedule_call, order_logger, rate_limit_per_sec, run, TOKEN, weekday, orders, fi, filtered_orders, filter_log, qi,
                 successes, failures, oi, successful_orders, failed_orders,
                 log, quotes_issued, now>>

\* process_orders_final returns; process_daily_orders either returns early
\* (no success), or builds quote_data_list inline and calls the order stage.
DailyBridge ==
  /\ pc = "quote"
  /\ qi = Len(filtered_orders)
  /\ IF QuoteSummary.successes = <<>>
       THEN /\ pc' = "done"
            /\ result' = [kind |-> "quote_failed",
                          total_processed |-> Len(filtered_orders),
                          successful_orders |-> <<>>,
                          failed_orders |-> QuoteSummary.failures,
                          success_rate |-> <<0, 1>>, has_rate |-> FALSE]
            /\ UNCHANGED <<exc, quote_data_list>>
       ELSE IF DailyExtractRaises(QuoteSummary.successes)
         THEN \* KeyError: 'quoteId'
              /\ pc' = "crashed"
              /\ exc' = "KeyError"
              /\ UNCHANGED <<result, quote_data_list>>
         ELSE /\ pc' = "order"
              /\ quote_data_list' = DailyExtract(QuoteSummary.successes)
              /\ UNCHANGED <<result, exc>>
  /\ UNCHANGED <<mode, cache, token_calls, scheduler, schedule_call, order_logger, rate_limit_per_sec, run, TOKEN, weekday, orders, fi, filtered_orders, filter_log, qi,
                 successes, failures, oi, successful_orders, failed_orders,
                 log, quotes_issued, now>>

\* The order stage's script: extract_quote_ids_from_successes over the loaded
\* successes, exit(1) when nothing is left, else the order stage.
FileBridge ==
  /\ pc = "extract"
  /\ quote_data_list' = extract_quote_ids_from_successes(successes)
  /\ IF quote_data_list' = <<>>
       THEN pc' = "done" /\ result' = [NoResult EXCEPT !.kind = "exit1"]
       ELSE pc' = "order" /\ result' = result
  /\ UNCHANGED <<mode, cache, token_calls, scheduler, schedule_call, order_logger, rate_limit_per_sec, run, TOKEN, weekday, orders, fi, filtered_orders, filter_log, qi,
                 successes, failures, oi, successful_orders, failed_orders,
                 exc, log, quotes_issued, now>>

\* What a call of the logger's log_order can do: append its entry to
\* order_log, or raise before it does.
LogOutcomes == {"logged", "raised"}
log_order(logger, quote_data, outcome) ==
  IF outcome = "logged"
    THEN [logger EXCEPT !.order_log = Append(@, quote_data.quote_id)]
    ELSE logger

\* What the save after the loop can do (save_to_google_sheets,
\* save_to_excel / append_to_existing_excel): save, report failure, raise.
SaveOutcomes == {"saved", "not_saved", "raised"}

\* Fault variant of OrderStep: log_order is called outside try/except, so
\* an exception of the logger leaves the loop and the run.
OrderStep_logging_uncaught ==
  /\ pc = "order"
  /\ oi < Len(quote_data_list)
  /\ LET i == oi + 1
         quote_data == quote_data_list[i]
         payload == create_order_payload(quote_data, quote_data.client_details, now)
     IN IF payload.raised
          THEN \* ValueError: nothing in the loop or its callers catches it
               /\ pc' = "crashed"
               /\ exc' = "ValueError"
               /\ UNCHANGED <<oi, successful_orders, failed_orders, log, now, order_logger>>
          ELSE \E outcome \in OrderOutcomes :
               LET res == send_order_with_quote_id(quote_data.quote_id, payload, outcome)
                   sleeps == i < Len(quote_data_list)
               IN \E logging \in (IF res.success /\ order_logger.kind # "none"
                                    THEN LogOutcomes ELSE {"skipped"}) :
                  /\ IF res.success
                       THEN /\ successful_orders' = Append(successful_orders,
                                  OrderSuccess(i, quote_data, res.response, payload))
                            /\ failed_orders' = failed_orders
                       ELSE /\ failed_orders' = Append(failed_orders,
                                  OrderFailure(i, quote_data, res.response))
                            /\ successful_orders' = successful_orders
                  /\ order_logger' = log_order(order_logger, quote_data, logging)
                  /\ log' = IF sleeps THEN log \o <<OrderCall(i, quote_data, payload, res), Sleep(Delay(rate_limit_per_sec))>>
                                      ELSE Append(log, OrderCall(i, quote_data, payload, res))
                  /\ now' \in IF sleeps THEN AfterSleep(now, Delay(rate_limit_per_sec)) ELSE {now}
                  /\ oi' = i
                  /\ pc' = IF logging = "raised" THEN "crashed" ELSE pc
                  /\ exc' = IF logging = "raised" THEN "LoggingError" ELSE exc
  /\ UNCHANGED <<mode, cache, token_calls, scheduler, schedule_call, rate_limit_per_sec, run, TOKEN, weekday, orders, fi, filtered_orders, filter_log, qi,
                 successes, failures, quote_data_list, result, quotes_issued>>

\* process_orders_from_quotes_final: one iteration of
\* `for i, quote_data in enumerate(quote_data_list, 1)`.  A successful
\* order is handed to the logger inside try/except.
OrderStep ==
  /\ pc = "order"
  /\ oi < Len(quote_data_list)
  /\ LET i == oi + 1
         quote_data == quote_data_list[i]
         payload == create_order_payload(quote_data, quote_data.client_details, now)
     IN IF payload.raised
          THEN \* ValueError: nothing in the loop or its callers catches it
               /\ pc' = "crashed"
               /\ exc' = "ValueError"
               /\ UNCHANGED <<oi, successful_orders, failed_orders, log, now, order_logger>>
          ELSE \E outcome \in OrderOutcomes :
               LET res == send_order_with_quote_id(quote_data.quote_id, payload, outcome)
                   sleeps == i < Len(quote_data_list)
               IN \E logging \in (IF res.success /\ order_logger.kind # "none"
                                    THEN LogOutcomes ELSE {"skipped"}) :
                  /\ IF res.success
                       THEN /\ successful_orders' = Append(successful_orders,
                                  OrderSuccess(i, quote_data, res.response, payload))
                            /\ failed_orders' = failed_orders
                       ELSE /\ failed_orders' = Append(failed_orders,
                                  OrderFailure(i, quote_data, res.response))
                            /\ successful_orders' = successful_orders
                  /\ order_logger' = log_order(order_logger, quote_data, logging)
                  /\ log' = IF sleeps THEN log \o <<OrderCall(i, quote_data, payload, res), Sleep(Delay(rate_limit_per_sec))>>
                                      ELSE Append(log, OrderCall(i, quote_data, payload, res))
                  /\ now' \in IF sleeps THEN AfterSleep(now, Delay(rate_limit_per_sec)) ELSE {now}
                  /\ oi' = i
                  /\ UNCHANGED <<pc, exc>>
  /\ UNCHANGED <<mode, cache, token_calls, scheduler, schedule_call, rate_limit_per_sec, run, TOKEN, weekday, orders, fi, filtered_orders, filter_log, qi,
                 successes, failures, quote_data_list, result, quotes_issued>>

\* process_orders_from_quotes_final saves the logger's order_log (inside
\* try/except, and only when it is not empty) and returns its summary,
\* which the daily run returns as its own result.
OrderReturn ==
  /\ pc = "order"
  /\ oi = Len(quote_data_list)
  /\ pc' = "done"
  /\ \E save \in (IF order_logger.kind # "none" /\ order_logger.order_log # <<>>
                    THEN SaveOutcomes ELSE {"not_saved"}) :
       result' = [kind |-> "order_results",
                  total_processed |-> Len(quote_data_list),
                  successful_orders |-> successful_orders,
                  failed_orders |-> failed_orders,
                  success_rate |-> SuccessRate(Len(successful_orders), Len(quote_data_list)),
                  has_rate |-> TRUE,
                  excel_file |-> IF order_logger.kind = "excel" /\ save = "saved"
                                   THEN "order_results.xlsx" ELSE NONE,
                  google_sheets_success |-> order_logger.kind = "sheets" /\ save = "saved"]
  /\ UNCHANGED <<mode, cache, token_calls, scheduler, schedule_call, order_logger, rate_limit_per_sec, run, TOKEN, weekday, orders, fi, filtered_orders, filter_log, qi,
                 successes, failures, quote_data_list, oi, successful_orders,
                 failed_orders, exc, log, quotes_issued, now>>

Next ==
  \/ FilterStep
  \/ FilterReturn
  \/ QuoteStep
  \/ DailyBridge
  \/ FileBridge
  \/ OrderStep
  \/ OrderReturn

Spec == Init /\ [][Next]_vars

\* The runs under the scheduling a single thread gives them: a run that can
\* take a step (the next loop iteration, the next statement) takes it.
SpecLive == Init /\ [][Next]_vars /\ WF_vars(Next)

\* The schedule filter on its own, over every frequency cell value.
NextFilter == FilterStep \/ FilterReturn

\* The exit code of the daily entry point once run_daily_automation has
\* returned `results`: main() returns 1 when the dict has an "error" key
\* (set only when the sheet could not be loaded) and 0 otherwise; an
\* exception that escapes ends the interpreter with code 1.
MainExitCode ==
  IF pc = "crashed" THEN 1
  ELSE IF result.kind = "load_error" THEN 1
  ELSE 0

SpecFilter == InitFilter /\ [][NextFilter]_vars

\* ------------------------------------------------------- row validation
\* Rows for the validation runs: a complete row with every combination of
\* latitude, longitude, pickup time, e-mail, phone and pickup id cells.
ValidateRows ==
  {[RowAna EXCEPT !.deliveryLattitude = lat, !.deliveryLongitude = lng,
                  !.pickup_time_utc = t, !.client_email = e,
                  !.client_phone = ph, !.pickupAddressBookId = id] :
     lat \in {"42.69", "95.5", "abc", NONE},
     lng \in {"23.32", "-200.0"},
     t \in {"2030-01-01T10:00:00Z", "2020-01-01T10:00:00Z", "notatimeZ",
            "2030-01-01T10:00:00+02:00"},
     e \in {"ana@x.com", "nodot@x", "nodomain.com"},
     ph \in {"+359888111222", "12345678", "1234567"},
     id \in {"12345678-1234-1234-1234-123456789012", "short-id"}}

\* process_orders_final called on one such row.
InitValidate ==
  /\ mode = "quote"
  /\ rate_limit_per_sec = RateTwoPerSec
  /\ TOKEN = BearerToken
  /\ order_logger = NoLogger
  /\ run = 1
  /\ cache = NoCache
  /\ token_calls = <<>>
  /\ scheduler = NoScheduler
  /\ schedule_call = NoScheduleCall
  /\ pc = "quote"
  /\ weekday = 0
  /\ orders = <<>>
  /\ successes = <<>>
  /\ fi = 0
  /\ filtered_orders \in {<<row>> : row \in ValidateRows}
  /\ filter_log = <<>>
  /\ qi = 0
  /\ failures = <<>>
  /\ quote_data_list = <<>>
  /\ oi = 0
  /\ successful_orders = <<>>
  /\ failed_orders = <<>>
  /\ result = NoResult
  /\ exc = NONE
  /\ log = <<>>
  /\ quotes_issued = 0
  /\ now = 0

NextValidate == QuoteStep \/ QuoteReturn
SpecValidate == InitValidate /\ [][NextValidate]_vars

\* ------------------------------------------------------------- re-runs
\* run_daily_automation is started again on the same date, after a run
\* that returned: load_data reads the same sheet, the weekday is the same,
\* and the run starts from scratch (nothing of the earlier run is read; the
\* carrier keeps what it was sent).
Rerun ==
  /\ mode = "daily"
  /\ pc = "done"
  /\ run < MaxRuns
  /\ run' = run + 1
  /\ pc' = "filter"
  /\ fi' = 0
  /\ filtered_orders' = <<>>
  /\ filter_log' = <<>>
  /\ qi' = 0
  /\ successes' = <<>>
  /\ failures' = <<>>
  /\ quote_data_list' = <<>>
  /\ oi' = 0
  /\ successful_orders' = <<>>
  /\ failed_orders' = <<>>
  /\ result' = NoResult
  /\ now' \in AfterSleep(now, 0)
  /\ UNCHANGED <<mode, cache, token_calls, scheduler, schedule_call, order_logger, rate_limit_per_sec, TOKEN, weekday, orders, exc, log,
                 quotes_issued>>

NextRerun ==
  \/ FilterStep
  \/ FilterReturn
  \/ QuoteStep
  \/ DailyBridge
  \/ OrderStep
  \/ OrderReturn
  \/ Rerun

SpecRerun == InitDaily /\ [][NextRerun]_vars

\* ------------------------------------------------- token acquisition
\* What get_bearer_token() can do when a stage module is imported: return
\* the cached token, fetch a new one, fail in the fetch (non-200 status, a
\* response without accessToken, the token endpoint unreachable), or not be
\* importable at all.
TokenOutcomes == {"cached", "fetched", "http_error", "no_token", "neterror", "unavailable"}

\* get_bearer_token(): the token, or the exception raised.
get_bearer_token(outcome) ==
  CASE outcome \in {"cached", "fetched"} -> [raised |-> NONE, token |-> BearerToken]
    [] outcome = "http_error" -> [raised |-> "HTTPError", token |-> NONE]
    [] outcome = "no_token" -> [raised |-> "RuntimeError", token |-> NONE]
    [] outcome = "neterror" -> [raised |-> "RequestException", token |-> NONE]
    [] OTHER -> [raised |-> "ImportError", token |-> NONE]

\* A run before the stage modules are imported.
InitAuth ==
  /\ \/ /\ mode = "daily"
        /\ rate_limit_per_sec \in Rates
        /\ weekday \in Weekdays
        /\ orders \in SeqsUpTo(PipelineRows, MaxOrders)
        /\ successes = <<>>
     \/ /\ mode = "file"
        /\ rate_limit_per_sec = RateTwoPerSec
        /\ weekday = 0
        /\ orders = <<>>
        /\ successes \in SeqsUpTo(FileSuccesses, MaxOrders)
  /\ TOKEN = NONE
  /\ order_logger = NoLogger
  /\ run = 1
  /\ cache = NoCache
  /\ token_calls = <<>>
  /\ scheduler = NoScheduler
  /\ schedule_call = NoScheduleCall
  /\ pc = "import"
  /\ fi = 0
  /\ filtered_orders = <<>>
  /\ filter_log = <<>>
  /\ qi = 0
  /\ failures = <<>>
  /\ quote_data_list = <<>>
  /\ oi = 0
  /\ successful_orders = <<>>
  /\ failed_orders = <<>>
  /\ result = NoResult
  /\ exc = NONE
  /\ log = <<>>
  /\ quotes_issued = 0
  /\ now = 0

\* Fault variant of ImportModules: the run goes on whatever
\* get_bearer_token() did, with TOKEN = None after a failure.
ImportModules_unchecked ==
  /\ pc = "import"
  /\ \E outcome \in TokenOutcomes :
       TOKEN' = get_bearer_token(outcome).token
  /\ pc' = IF mode = "file" THEN "extract" ELSE "filter"
  /\ UNCHANGED <<mode, cache, token_calls, scheduler, schedule_call, order_logger, rate_limit_per_sec, run, weekday, orders, fi, filtered_orders,
                 filter_log, qi, successes, failures, quote_data_list, oi,
                 successful_orders, failed_orders, result, exc, log,
                 quotes_issued, now>>

\* The import of the stage modules, each of which runs
\* TOKEN = get_bearer_token() at module level.  An exception out of it ends
\* the process; when the token service cannot be imported the order module
\* gets TOKEN = None and calls exit(1), and the daily script's own
\* `except ImportError` calls exit(1).
ImportModules ==
  /\ pc = "import"
  /\ \E outcome \in TokenOutcomes :
       LET r == get_bearer_token(outcome)
       IN IF r.raised = NONE
            THEN /\ TOKEN' = r.token
                 /\ pc' = IF mode = "file" THEN "extract" ELSE "filter"
                 /\ UNCHANGED <<result, exc>>
            ELSE IF r.raised = "ImportError"
              THEN /\ TOKEN' = NONE
                   /\ pc' = "done"
                   /\ result' = [NoResult EXCEPT !.kind = "exit1"]
                   /\ exc' = exc
              ELSE /\ TOKEN' = NONE
                   /\ pc' = "crashed"
                   /\ exc' = r.raised
                   /\ result' = result
  /\ UNCHANGED <<mode, cache, token_calls, scheduler, schedule_call, order_logger, rate_limit_per_sec, run, weekday, orders, fi, filtered_orders,
                 filter_log, qi, successes, failures, quote_data_list, oi,
                 successful_orders, failed_orders, log, quotes_issued, now>>

NextAuth ==
  \/ ImportModules
  \/ FilterStep
  \/ FilterReturn
  \/ QuoteStep
  \/ DailyBridge
  \/ FileBridge
  \/ OrderStep
  \/ OrderReturn

SpecAuth == InitAuth /\ [][NextAuth]_vars

\* The two stage functions called on their own.
InitStages == InitQuoteCall \/ InitOrderCall
NextStages == QuoteStep \/ QuoteReturn \/ OrderStep \/ OrderReturn
SpecStages == InitStages /\ [][NextStages]_vars

\* ------------------------------------------------------- order logging runs
\* process_orders_from_quotes_final called on a list of contexts with every
\* combination of its logging arguments, of the logging modules being
\* importable or not, and of the GoogleSheetsLogger constructor succeeding
\* or raising.
InitLogging ==
  /\ mode = "order"
  /\ rate_limit_per_sec = RateTwoPerSec
  /\ \E log_orders, use_google_sheets, modules_imported, constructed \in BOOLEAN :
       \E google_sheets_url \in {NONE, "https://docs.google.com/spreadsheets/d/1"} :
         order_logger = LoggerFor(log_orders, use_google_sheets, google_sheets_url,
                                  modules_imported, constructed)
  /\ TOKEN = BearerToken
  /\ run = 1
  /\ cache = NoCache
  /\ token_calls = <<>>
  /\ scheduler = NoScheduler
  /\ schedule_call = NoScheduleCall
  /\ pc = "order"
  /\ weekday = 0
  /\ orders = <<>>
  /\ successes = <<>>
  /\ fi = 0
  /\ filtered_orders = <<>>
  /\ filter_log = <<>>
  /\ qi = 0
  /\ failures = <<>>
  /\ quote_data_list \in SeqsUpTo(FileContexts, MaxOrders)
  /\ oi = 0
  /\ successful_orders = <<>>
  /\ failed_orders = <<>>
  /\ result = NoResult
  /\ exc = NONE
  /\ log = <<>>
  /\ quotes_issued = 0
  /\ now = 0

NextLogging == OrderStep \/ OrderReturn
SpecLogging == InitLogging /\ [][NextLogging]_vars

\* The pipeline's variables while another part of the repository runs.
PipelineIdle ==
  /\ rate_limit_per_sec = RateTwoPerSec
  /\ order_logger = NoLogger
  /\ TOKEN = NONE
  /\ pc = "idle"
  /\ weekday = 0
  /\ orders = <<>>
  /\ successes = <<>>
  /\ fi = 0
  /\ filtered_orders = <<>>
  /\ filter_log = <<>>
  /\ qi = 0
  /\ failures = <<>>
  /\ quote_data_list = <<>>
  /\ oi = 0
  /\ successful_orders = <<>>
  /\ failed_orders = <<>>
  /\ result = NoResult
  /\ exc = NONE
  /\ log = <<>>
  /\ quotes_issued = 0

\* ------------------------------------------------------ token service runs
\* A process that calls get_bearer_token: the cache file is missing,
\* unparseable, or what an earlier process wrote (its token expired, about
\* to expire, or good for an hour).
InitToken ==
  /\ mode = "token"
  /\ run = 1
  /\ cache \in {NoCache, UnreadableCache}
               \cup {[state |-> "json", accessToken |-> "token0", expires_at |-> x] :
                       x \in {0, 1, 3585}}
  /\ token_calls = <<>>
  /\ scheduler = NoScheduler
  /\ schedule_call = NoScheduleCall
  /\ now = 0
  /\ PipelineIdle

\* One call of get_bearer_token(force_refresh).
GetBearerToken ==
  /\ mode = "token"
  /\ Len(token_calls) < MaxTokenCalls
  /\ \E force_refresh \in BOOLEAN :
       \E response \in TokenResponses("token" \o ToString(Len(token_calls) + 1)) :
         LET r == get_bearer_token_at(cache, force_refresh, response, now)
         IN /\ cache' = r.cache
            /\ token_calls' = Append(token_calls,
                 [force_refresh |-> force_refresh, time |-> now, cache_before |-> cache,
                  response |-> response, fetched |-> r.fetched, returned |-> r.returned,
                  raised |-> r.raised, cache_after |-> r.cache])
  /\ UNCHANGED <<mode, scheduler, schedule_call, order_logger, rate_limit_per_sec, run, TOKEN, pc,
                 weekday, orders, fi, filtered_orders, filter_log, qi, successes,
                 failures, quote_data_list, oi, successful_orders, failed_orders,
                 result, exc, log, quotes_issued, now>>

\* A second passes between two calls.
TokenClockTick ==
  /\ mode = "token"
  /\ now < MaxClock
  /\ now' = now + 1
  /\ UNCHANGED <<mode, cache, token_calls, scheduler, schedule_call, order_logger, rate_limit_per_sec,
                 run, TOKEN, pc, weekday, orders, fi, filtered_orders, filter_log,
                 qi, successes, failures, quote_data_list, oi, successful_orders,
                 failed_orders, result, exc, log, quotes_issued>>

NextToken == GetBearerToken \/ TokenClockTick
SpecToken == InitToken /\ [][NextToken]_vars

\* ------------------------------------------------------ scheduler runs
\* AutomatedOrderScheduler after load_data, with some rows in the Orders
\* sheet.
InitScheduler ==
  /\ mode = "scheduler"
  /\ run = 1
  /\ cache = NoCache
  /\ token_calls = <<>>
  /\ scheduler \in {[clients |-> SchedulerClients, restaurants |-> SchedulerRestaurants,
                      orders |-> existing] :
                       existing \in SeqsUpTo(ExistingOrderRows, MaxExisting)}
  /\ schedule_call = NoScheduleCall
  /\ now = 0
  /\ PipelineIdle

\* The dates get_next_order_dates hands over: ascending, without repeats.
OrderDateLists == {<<>>, <<0>>, <<1>>, <<0, 1>>}

\* One call of generate_orders_for_client(client_id, order_dates).
GenerateOrdersForClient ==
  /\ mode = "scheduler"
  /\ ~schedule_call.made
  /\ \E client_id \in {"C001", "C002", "C404"} :
       \E order_dates \in OrderDateLists :
         schedule_call' =
           [made |-> TRUE, client_id |-> client_id, order_dates |-> order_dates,
            returned |-> generate_orders_for_client(scheduler, client_id, order_dates)]
  /\ UNCHANGED <<mode, cache, token_calls, scheduler, order_logger, rate_limit_per_sec, run, TOKEN, pc,
                 weekday, orders, fi, filtered_orders, filter_log, qi, successes,
                 failures, quote_data_list, oi, successful_orders, failed_orders,
                 result, exc, log, quotes_issued, now>>

NextScheduler == GenerateOrdersForClient
SpecScheduler == InitScheduler /\ [][NextScheduler]_vars

\* ================================================================ claims
ContactOfRow(row) ==
  [name |-> row.client_name, phone |-> row.client_phone, email |-> row.client_email]
ContactOfDetails(cd) == [name |-> cd.name, phone |-> cd.phone, email |-> cd.email]
CompleteDetails(cd) == Truthy(cd.name) /\ Truthy(cd.phone) /\ Truthy(cd.email)
QuoteCallsOk == SelectSeq(log, LAMBDA e : e.kind = "quote" /\ e.ok)
QuoteCalls == SelectSeq(log, LAMBDA e : e.kind = "quote")
OrderCalls == SelectSeq(log, LAMBDA e : e.kind = "order")

\* C1: in a daily run the k-th order request goes out under the quote id that
\* the k-th successful quote call returned, and its contact block is
\* client_name/client_phone/client_email of the record that quote call was
\* made for; the three *_details of each context are those of that record.
C1_ContactIsSourceRecord ==
  mode = "daily" =>
    /\ Len(OrderCalls) <= Len(QuoteCallsOk)
    /\ \A k \in 1..Len(OrderCalls) :
         LET src == filtered_orders[QuoteCallsOk[k].index]
         IN /\ OrderCalls[k].quote_id = QuoteCallsOk[k].quote_id
            /\ OrderCalls[k].contact = ContactOfRow(src)
    /\ \A k \in 1..Len(quote_data_list) :
         LET src == filtered_orders[QuoteCallsOk[k].index]
         IN /\ quote_data_list[k].client_details.name = src.client_name
            /\ quote_data_list[k].client_details.phone = src.client_phone
            /\ quote_data_list[k].client_details.email = src.client_email
            /\ quote_data_list[k].client_details.client_id = src.client_id
            /\ quote_data_list[k].restaurant_details.name = src.restaurant_name
            /\ quote_data_list[k].restaurant_details.pickup_address_book_id = src.pickupAddressBookId
            /\ quote_data_list[k].order_details.delivery_frequency = src.deliveryFrequency

\* Two order requests of one daily run, for two different clients.
C1_Witness ==
  /\ mode = "daily"
  /\ Len(OrderCalls) = 2
  /\ OrderCalls[1].contact.name # OrderCalls[2].contact.name

\* The indexes 1..n of the successes a bridge turns into contexts, ascending:
\* all of them in the daily run, those with a non-empty quoteId in
\* extract_quote_ids_from_successes.
RECURSIVE KeptFrom(_)
KeptFrom(k) ==
  IF k > Len(successes) THEN <<>>
  ELSE IF mode = "daily" \/ Truthy(successes[k].response.quoteId)
    THEN <<k>> \o KeptFrom(k + 1)
    ELSE KeptFrom(k + 1)

\* The bridge has produced quote_data_list.
BridgeActed ==
  \/ pc = "order"
  \/ pc = "done" /\ result.kind \in {"order_results", "exit1"}
  \/ pc = "crashed" /\ exc = "ValueError"

\* C2: every context a bridge produces carries the client_details,
\* restaurant_details and order_details stored in the quote success it was
\* made from, and the contexts come in the order of the successes.
C2_BridgeRoundTrip ==
  BridgeActed =>
    LET kept == KeptFrom(1)
    IN /\ Len(quote_data_list) = Len(kept)
       /\ \A j \in 1..Len(kept) :
            /\ quote_data_list[j].client_details = successes[kept[j]].client_details
            /\ quote_data_list[j].restaurant_details = successes[kept[j]].restaurant_details
            /\ quote_data_list[j].order_details = successes[kept[j]].order_details
            /\ quote_data_list[j].quote_id = successes[kept[j]].response.quoteId

\* Both bridges at work: two contexts of different clients, whose stored
\* client_details are not what the row alone would give (file run) ...
C2_Witness ==
  /\ mode = "file"
  /\ BridgeActed
  /\ Len(successes) = 2
  /\ Len(quote_data_list) = 1
  /\ quote_data_list[1].client_details.email = ""
  /\ successes[2].client_details.email = ""

\* ... and the inline extraction of the daily run over two successes.
C2_WitnessDaily ==
  /\ mode = "daily"
  /\ BridgeActed
  /\ Len(quote_data_list) = 2
  /\ quote_data_list[1].client_details # quote_data_list[2].client_details

Placeholders ==
  {"Unknown", "Unknown Client", "Unknown Phone", "Unknown Email",
   "Default Client", "+1234567890", "client@example.com"}

\* C3: create_order_payload raises whenever name, phone or email of the
\* client details is missing or empty (the loop never gets past such a
\* context and no request goes out for it); a request that does go out has
\* the three contact fields non-empty, not a placeholder, and equal to the
\* client details of its context.
C3_PayloadNeedsContact ==
  /\ \A i \in 1..Len(quote_data_list) :
       ~CompleteDetails(quote_data_list[i].client_details) =>
          /\ oi < i
          /\ create_order_payload(quote_data_list[i], quote_data_list[i].client_details, now).raised
          /\ \A k \in 1..Len(OrderCalls) : OrderCalls[k].index # i
  /\ \A k \in 1..Len(OrderCalls) :
       LET cd == quote_data_list[OrderCalls[k].index].client_details
           c == OrderCalls[k].contact
       IN /\ c = ContactOfDetails(cd)
          /\ Truthy(c.name) /\ Truthy(c.phone) /\ Truthy(c.email)
          /\ {c.name, c.phone, c.email} \cap Placeholders = {}
  /\ exc = "ValueError" => ~CompleteDetails(quote_data_list[oi + 1].client_details)

\* A request built from complete details went out, then the next context,
\* without an e-mail, made create_order_payload raise.
C3_Witness ==
  /\ exc = "ValueError"
  /\ Len(OrderCalls) = 1
  /\ oi = 1
  /\ quote_data_list[2].client_details.email = ""

\* C4: a context without complete client details fails alone: once the
\* order stage is over it is in failed_orders, no order call was made for
\* it, and every other context of the batch got its order call and is
\* reported.
C4_ContextLossIsPerRecord ==
  (pc \in {"done", "crashed"} /\ quote_data_list # <<>>) =>
    /\ pc = "done"
    /\ result.kind = "order_results"
    /\ \A i \in 1..Len(quote_data_list) :
         IF CompleteDetails(quote_data_list[i].client_details)
           THEN /\ \E k \in 1..Len(OrderCalls) : OrderCalls[k].index = i
                /\ \/ \E k \in 1..Len(result.successful_orders) : result.successful_orders[k].index = i
                   \/ \E k \in 1..Len(result.failed_orders) : result.failed_orders[k].index = i
           ELSE /\ \A k \in 1..Len(OrderCalls) : OrderCalls[k].index # i
                /\ \E k \in 1..Len(result.failed_orders) : result.failed_orders[k].index = i

\* The quote stage of a daily run is over (it returned, or an exception
\* left it).
QuoteStageOver ==
  /\ mode = "daily"
  /\ filtered_orders # <<>>
  /\ \/ pc = "quote" /\ qi = Len(filtered_orders)
     \/ pc \in {"order", "done", "crashed"}

Indexes(entries) == [k \in 1..Len(entries) |-> entries[k].index]
Ascending(ix) == \A a, b \in 1..Len(ix) : a < b => ix[a] < ix[b]
Range(f) == {f[k] : k \in DOMAIN f}

\* C5: after process_orders_final over n records every record is in exactly
\* one of successes and failures, both lists are in input order, and
\* total = len(successes) + len(failures) = n: a failing record never keeps
\* a later one from being processed.
C5_QuoteStageAccountsForAll ==
  QuoteStageOver =>
    LET n == Len(filtered_orders)
    IN /\ qi = n
       /\ QuoteSummary.total = n
       /\ Range(Indexes(successes)) \cup Range(Indexes(failures)) = 1..n
       /\ Range(Indexes(successes)) \cap Range(Indexes(failures)) = {}
       /\ Ascending(Indexes(successes))
       /\ Ascending(Indexes(failures))
       /\ \A k \in 1..Len(successes) : successes[k].row = filtered_orders[successes[k].index]
       /\ \A k \in 1..Len(failures) : failures[k].row = filtered_orders[failures[k].index]

\* C6: a record that validate_row rejects ends in the failure list, no
\* carrier call is made for it, and the loop goes on to the next record.
C6_InvalidRecordSkipped ==
  QuoteStageOver =>
    \A i \in 1..Len(filtered_orders) :
      validate_row(filtered_orders[i]) # NONE =>
        /\ \E k \in 1..Len(failures) : failures[k].index = i
        /\ \A k \in 1..Len(QuoteCalls) : QuoteCalls[k].index # i
        /\ qi >= i

\* C7: the summary a daily run returns has total = number of due records
\* that entered the quote stage, accounts for each of them as a success or
\* a failure, and its success_rate is successes/total*100 over that total.
C7_DailySummaryCountsDueRecords ==
  (mode = "daily" /\ pc = "done" /\ result.kind \in {"quote_failed", "order_results"}) =>
    LET n == Len(filtered_orders)
    IN /\ result.total_processed = n
       /\ Len(result.successful_orders) + Len(result.failed_orders) = n
       /\ result.has_rate =>
            result.success_rate = SuccessRate(Len(result.successful_orders), n)

\* Frequency cells that stand for 3 and for 5 deliveries a week.
CellsOf3 == {"3", "'3'"}
CellsOf5 == {"5"}

\* C8: should_process_client(3, weekday) is true exactly on weekdays
\* {0,2,4} and should_process_client(5, weekday) exactly on {0,1,2,3,4};
\* both are false on 5 and 6.  The filter keeps a row with frequency 3 or 5
\* accordingly.
C8_FrequencySchedule ==
  /\ should_process_client(3, weekday).due <=> weekday \in {0, 2, 4}
  /\ should_process_client(5, weekday).due <=> weekday \in {0, 1, 2, 3, 4}
  /\ \A k \in 1..Len(filter_log) :
       /\ filter_log[k].frequency \in CellsOf3 => (filter_log[k].keep <=> weekday \in {0, 2, 4})
       /\ filter_log[k].frequency \in CellsOf5 => (filter_log[k].keep <=> weekday \in {0, 1, 2, 3, 4})

\* Tuesday: the row with frequency 3 is left out, the one with 5 is kept.
C8_Witness ==
  /\ weekday = 1
  /\ pc = "done"
  /\ Len(filter_log) = 2
  /\ filter_log[1].frequency = "3" /\ ~filter_log[1].keep
  /\ filter_log[2].frequency = "5" /\ filter_log[2].keep

\* C9 as claimed: on every day of the week every row whose frequency is not
\* 3 or 5 is left out with a warning, and the filter evaluates every row
\* and raises nothing.
C9_UnknownFrequencyAlwaysWarns ==
  /\ \A k \in 1..Len(filter_log) :
       filter_log[k].frequency \notin (CellsOf3 \cup CellsOf5) =>
         ~filter_log[k].keep /\ filter_log[k].warned
  /\ pc = "done" => Len(filter_log) = Len(orders) /\ exc = NONE

\* Frequency cells int() cannot convert, cells it converts to an integer
\* other than 3 and 5, and cells it truncates to 3.
CellsUnconvertible == {"'abc'", NONE}
CellsOfOtherInts == {"'7'", "7", "0", ABSENT}
CellsTruncatedTo3 == {"3.7"}

\* What the filter does guarantee for such rows (C9, weakened to the code's
\* behaviour): a row whose frequency int() cannot convert is left out
\* with a warning on every day; a row whose frequency converts to an
\* integer other than 3 and 5 is left out on every day, with a warning on
\* Monday to Friday and without one on Saturday and Sunday; a fractional
\* value is scheduled as the integer int() truncates it to.  No exception
\* leaves the filter and every row of the batch is evaluated.
C9_UnknownFrequencyExcluded ==
  /\ \A k \in 1..Len(filter_log) :
       LET e == filter_log[k]
       IN /\ e.frequency \in CellsUnconvertible => ~e.keep /\ e.warned
          /\ e.frequency \in CellsOfOtherInts => ~e.keep /\ (e.warned <=> weekday <= 4)
          /\ e.frequency \in CellsTruncatedTo3 => (e.keep <=> weekday \in {0, 2, 4}) /\ ~e.warned
  /\ fi <= Len(orders) /\ Len(filter_log) = fi
  /\ pc = "done" => fi = Len(orders) /\ exc = NONE

\* Monday: "7" is left out with a warning, and the row after it is still
\* evaluated (and kept).
C9_WarnedOnMonday ==
  /\ weekday = 0
  /\ pc = "done"
  /\ Len(filter_log) = 2
  /\ filter_log[1].frequency = "'7'" /\ ~filter_log[1].keep /\ filter_log[1].warned
  /\ filter_log[2].keep

\* A row is due today (the schedule rule, from the frequency cell).
DueToday(order) ==
  \/ order.deliveryFrequency \in (CellsOf3 \cup CellsTruncatedTo3) /\ weekday \in {0, 2, 4}
  \/ order.deliveryFrequency \in CellsOf5 /\ weekday \in {0, 1, 2, 3, 4}

\* C10: filter_orders_for_today returns exactly the rows due today, in
\* their input order (after fi rows: the due ones among the first fi); it
\* makes no carrier call and leaves self.orders as it was.
C10_FilterState ==
  /\ pc = "filter" =>
       /\ filtered_orders = SelectSeq(SubSeq(orders, 1, fi), DueToday)
       /\ log = <<>> /\ quotes_issued = 0
  /\ (pc # "filter" /\ mode # "file") => filtered_orders = SelectSeq(orders, DueToday)

DailyBridgeOver ==
  /\ mode = "daily"
  /\ qi = Len(filtered_orders)
  /\ successes # <<>>
  /\ pc \in {"order", "done", "crashed"}

\* The positions of the quote successes that carry a non-empty quote id.
WithQuoteId == SelectSeq([k \in 1..Len(successes) |-> k],
                         LAMBDA k : Truthy(successes[k].response.quoteId))

\* C11: in a daily run a quote success without a (non-empty) quote id is
\* skipped by the bridge and does not stop the run: the order stage gets
\* exactly the successes that have a non-empty quote id, in their order, and
\* no context has an empty or substituted id.
C11_MissingQuoteIdSkipped ==
  DailyBridgeOver =>
    /\ exc # "KeyError"
    /\ Len(quote_data_list) = Len(WithQuoteId)
    /\ \A j \in 1..Len(quote_data_list) :
         /\ Truthy(quote_data_list[j].quote_id)
         /\ j <= Len(WithQuoteId) =>
              quote_data_list[j].quote_id = successes[WithQuoteId[j]].response.quoteId
    /\ \A k \in 1..Len(log) : log[k].kind = "order" => Truthy(log[k].quote_id)

\* Every two calls of one stage have a sleep between them.
SleepBetweenCalls(kind) ==
  \A a, b \in 1..Len(log) :
    (a < b /\ log[a].kind = kind /\ log[b].kind = kind) =>
      \E c \in (a + 1)..(b - 1) : log[c].kind = "sleep"

Sleeps == SelectSeq(log, LAMBDA e : e.kind = "sleep")
AtLeastOneLess(calls) == IF calls = <<>> THEN 0 ELSE Len(calls) - 1

StageReturned == pc = "done" /\ result.kind \in {"quote_summary", "order_results"}

\* C13: the success_rate of a stage summary (a fraction <<p, q>> standing
\* for p/q) is 0 when the stage processed no record, is exactly 100 when
\* the failure list is empty and there is a success, and always equals
\* successes / total * 100 with total = successes + failures.
C13_SuccessRate ==
  StageReturned =>
    LET ns == Len(result.successful_orders)
        nf == Len(result.failed_orders)
        p == result.success_rate[1]
        q == result.success_rate[2]
    IN /\ q > 0
       /\ result.total_processed = ns + nf
       /\ result.total_processed = 0 => p = 0
       /\ (nf = 0 /\ ns >= 1) => p = 100 * q
       /\ result.total_processed > 0 => p * (ns + nf) = ns * 100 * q

\* A stage over two records, both successful: 100 per cent.
C13_Witness ==
  /\ StageReturned
  /\ Len(result.successful_orders) = 2
  /\ result.failed_orders = <<>>
  /\ result.success_rate = <<200, 2>>

\* Each stage called on an empty list: total 0 and rate 0.
C13_WitnessEmptyQuoteStage ==
  StageReturned /\ result.kind = "quote_summary" /\ result.total_processed = 0
    /\ result.success_rate[1] = 0
C13_WitnessEmptyOrderStage ==
  StageReturned /\ result.kind = "order_results" /\ result.total_processed = 0
    /\ result.success_rate[1] = 0

\* C14: the daily entry point exits with 0 when the run placed at least one
\* order, and with 1 when no quote succeeded or no order was placed.
C14_ExitCodeReflectsSuccess ==
  (mode = "daily" /\ pc = "done" /\ result.kind \in {"quote_failed", "order_results"}) =>
    (MainExitCode = 0 <=> result.successful_orders # <<>>)

\* The exceptions a failed token acquisition raises.
AuthErrors == {"HTTPError", "RuntimeError", "RequestException"}

\* C15: a run whose token acquisition failed ends before any carrier call:
\* while there is no token nothing has been sent, a run that ended on a
\* token failure has sent nothing, and every quote and order call carries
\* the acquired token.
C15_NoCallWithoutToken ==
  /\ TOKEN = NONE => log = <<>>
  /\ exc \in AuthErrors => (pc = "crashed" /\ TOKEN = NONE /\ log = <<>>)
  /\ pc # "import" /\ TOKEN = NONE => pc \in {"crashed", "done"}
  /\ \A k \in 1..Len(log) :
       log[k].kind \in {"quote", "order"} => log[k].authorization = BearerToken

\* A Monday run over two due rows whose token request was refused: it ended
\* in the import, with nothing sent.
C15_Witness ==
  /\ mode = "daily" /\ weekday = 0
  /\ orders = <<RowAna, RowBob>>
  /\ pc = "crashed" /\ exc = "HTTPError"
  /\ TOKEN = NONE
  /\ log = <<>>

\* The order calls the carrier accepted.
PlacedOrders == SelectSeq(log, LAMBDA e : e.kind = "order" /\ e.ok)

\* C16: a second run of the daily pipeline on the same date places no
\* order for a record (identified by its contact) whose order was placed
\* in an earlier run.
C16_NoSecondOrderOnRerun ==
  \A a, b \in 1..Len(PlacedOrders) :
    PlacedOrders[a].run < PlacedOrders[b].run =>
      PlacedOrders[a].contact # PlacedOrders[b].contact

\* C17: any two order requests, of one batch or of two runs, carry
\* different pickupOrderCode values.
C17_PickupOrderCodeUnique ==
  \A a, b \in 1..Len(OrderCalls) :
    a # b => OrderCalls[a].pickupOrderCode # OrderCalls[b].pickupOrderCode

\* The conditions C18 names, on the cell values of the model (coordinates in
\* hundredths of a degree; the present is between 2020 and 2030).
LatitudeInRange(v) == FloatOk(v) /\ FloatOf(v) >= -9000 /\ FloatOf(v) <= 9000
LongitudeInRange(v) == FloatOk(v) /\ FloatOf(v) >= -18000 /\ FloatOf(v) <= 18000
FutureTimestampWithOffset(v) ==
  v \in {"2030-01-01T10:00:00Z", "2030-01-01T10:00:00+02:00"}
ValidAsClaimed(row) ==
  /\ \A i \in 1..Len(RequiredFields) : ~MissingField(row, RequiredFields[i])
  /\ LatitudeInRange(row.deliveryLattitude)
  /\ LongitudeInRange(row.deliveryLongitude)
  /\ FutureTimestampWithOffset(row.pickup_time_utc)
  /\ HasAt(row.client_email) /\ DottedDomain(row.client_email)
  /\ PhoneLen(row.client_phone) >= 8

\* C18: validate_row returns no error exactly for the rows with every
\* required field, latitude in [-90, 90], longitude in [-180, 180], a
\* future pickup timestamp with explicit offset, an e-mail with '@' and a
\* dotted domain and a phone of length >= 8; so once the quote stage has
\* visited a row, it has a validation failure exactly when it is not such
\* a row.
C18_ValidateRowIff ==
  \A i \in 1..qi :
    LET row == filtered_orders[i]
    IN /\ validate_row(row) = NONE <=> ValidAsClaimed(row)
       /\ (\E k \in 1..Len(failures) : failures[k].index = i)
            \/ (\E k \in 1..Len(QuoteCalls) : QuoteCalls[k].index = i)
       /\ ValidAsClaimed(row) <=> \E k \in 1..Len(QuoteCalls) : QuoteCalls[k].index = i

\* Positions in the log of the order calls made with a given quote id.
OrderCallsWith(quote_id) ==
  {k \in 1..Len(log) : log[k].kind = "order" /\ log[k].quote_id = quote_id}

\* C19: when a daily run is over, every order call used a quote id that a
\* successful quote call of the run had returned before it, and every quote
\* success with a non-empty quote id was used by exactly one order call.
C19_QuoteConsumedOnce ==
  (mode = "daily" /\ pc \in {"done", "crashed"}) =>
    /\ \A k \in 1..Len(log) :
         log[k].kind = "order" =>
           \E j \in 1..(k - 1) :
             log[j].kind = "quote" /\ log[j].ok /\ log[j].quote_id = log[k].quote_id
    /\ \A i \in 1..Len(successes) :
         Truthy(successes[i].response.quoteId) =>
           Cardinality(OrderCallsWith(successes[i].response.quoteId)) = 1

\* C20: no retry: within a run no record gets a second quote call and no
\* context a second order call, whatever the first call's outcome; the
\* calls made never outnumber the records and contexts visited.
C20_NoImplicitRetry ==
  /\ \A a, b \in 1..Len(log) :
       (a # b /\ log[a].kind \in {"quote", "order"} /\ log[a].kind = log[b].kind
              /\ log[a].run = log[b].run) =>
         log[a].index # log[b].index
  /\ Len(QuoteCalls) <= qi
  /\ Len(OrderCalls) <= oi

\* A finished daily run over two due rows: the first quote call failed and
\* was not repeated, the second succeeded, its order call failed and was
\* not repeated.
C20_Witness ==
  /\ mode = "daily" /\ pc = "done"
  /\ Len(filtered_orders) = 2
  /\ Len(QuoteCalls) = 2 /\ ~QuoteCalls[1].ok /\ QuoteCalls[2].ok
  /\ Len(OrderCalls) = 1 /\ ~OrderCalls[1].ok

\* The carrier calls in the log, quote and order calls alike.
CarrierCalls == SelectSeq(log, LAMBDA e : e.kind \in {"quote", "order"})

\* Within a run the order calls come after every quote call.
StagesInSequence ==
  \A a, b \in 1..Len(log) :
    (log[a].kind = "order" /\ log[b].kind = "quote" /\ log[a].run = log[b].run) => b < a

\* C21: the calls are made one at a time and the stages do not overlap:
\* every call is a blocking step of the one thread, so a step of the run
\* adds at most one carrier call to those already returned and removes none,
\* and within a run every order call comes after the last quote call.
C21_OneCallAtATime ==
  /\ []StagesInSequence
  /\ [][/\ Len(CarrierCalls') <= Len(CarrierCalls) + 1
        /\ SubSeq(CarrierCalls', 1, Len(CarrierCalls)) = CarrierCalls]_vars

\* A finished daily run with two quote calls followed by two order calls.
C21_Witness ==
  /\ mode = "daily" /\ pc = "done"
  /\ Len(CarrierCalls) = 4
  /\ CarrierCalls[2].kind = "quote" /\ CarrierCalls[3].kind = "order"

\* C22: no bursts: any two carrier calls of one run have a pacing sleep
\* between them, the last quote call and the first order call included.
C22_SleepBetweenAnyTwoCalls ==
  \A a, b \in 1..Len(log) :
    (/\ a < b
     /\ log[a].kind \in {"quote", "order"}
     /\ log[b].kind \in {"quote", "order"}
     /\ log[a].run = log[b].run) =>
      \E c \in (a + 1)..(b - 1) : log[c].kind = "sleep"

\* C23: the package description of every order request is
\* order_details.order_description of the context it was built from, also
\* for a record whose row has no order_id.
C23_DescriptionFromOrderDetails ==
  \A k \in 1..Len(log) :
    (log[k].kind = "order" /\ log[k].run = run) =>
      log[k].description = quote_data_list[log[k].index].order_details.order_description

\* The indexes of the order calls the carrier accepted / did not accept.
AcceptedIndexes == Indexes(SelectSeq(log, LAMBDA e : e.kind = "order" /\ e.ok))
RefusedIndexes == Indexes(SelectSeq(log, LAMBDA e : e.kind = "order" /\ ~e.ok))

\* C24: what the order stage sends and returns is determined by the
\* contexts and the carrier's responses alone, whatever logger was set up
\* and whether its log_order and its final save succeed, fail or are
\* skipped: one call per visited context, built from that context;
\* successful_orders are the accepted calls and failed_orders the refused
\* ones, in call order; the summary counts them; and no exception of the
\* logger ever ends the stage.
C24_AuditSinkNeverAffects ==
  /\ exc \in {NONE, "ValueError"}
  /\ Len(OrderCalls) = oi
  /\ \A k \in 1..oi :
       LET ctx == quote_data_list[k]
       IN /\ OrderCalls[k].index = k
          /\ OrderCalls[k].quote_id = ctx.quote_id
          /\ OrderCalls[k].contact = ContactOfDetails(ctx.client_details)
          /\ OrderCalls[k].description = Get(ctx.original_row, "order_id", "Food delivery order")
  /\ Indexes(successful_orders) = AcceptedIndexes
  /\ Indexes(failed_orders) = RefusedIndexes
  /\ \A j \in 1..Len(successful_orders) :
       LET k == successful_orders[j].index
           ctx == quote_data_list[k]
       IN successful_orders[j] =
            OrderSuccess(k, ctx, [id |-> "order-" \o ctx.quote_id],
                         [pickupOrderCode |-> OrderCalls[k].pickupOrderCode])
  /\ StageReturned =>
       /\ result.successful_orders = successful_orders
       /\ result.failed_orders = failed_orders
       /\ result.total_processed = Len(quote_data_list)
       /\ result.success_rate = SuccessRate(Len(AcceptedIndexes), Len(quote_data_list))

\* Two accepted orders with a Google Sheets logger whose first log_order
\* raised and whose final save failed: both orders are in the summary.
C24_Witness ==
  /\ StageReturned
  /\ order_logger.kind = "sheets"
  /\ Len(result.successful_orders) = 2
  /\ Len(order_logger.order_log) = 1
  /\ order_logger.order_log[1] = quote_data_list[2].quote_id
  /\ ~result.google_sheets_success

\* The same two orders with no logger at all, and with the Excel fallback
\* whose save succeeded.
C24_WitnessNoLogger ==
  /\ StageReturned
  /\ order_logger.kind = "none"
  /\ Len(result.successful_orders) = 2
C24_WitnessExcelSaved ==
  /\ StageReturned
  /\ order_logger.kind = "excel"
  /\ Len(result.successful_orders) = 2
  /\ result.excel_file # NONE

\* C25: get_bearer_token returns the cached token exactly when force_refresh
\* is false and the cache is readable with expires_at later than the
\* current time; in every other case it asks for a new token, and a
\* successful fetch returns that token and overwrites the cache with it and
\* with expires_at = now + max(0, expires_in - 15) (expires_in = 3600 when
\* the response does not give it); a failed fetch raises and leaves the
\* cache alone; a call that returns, returns a non-empty token.
C25_CachedOnlyWhileUnexpired ==
  \A k \in 1..Len(token_calls) :
    LET e == token_calls[k]
        usable == /\ ~e.force_refresh
                  /\ e.cache_before.state = "json"
                  /\ e.cache_before.expires_at > e.time
        expires_in == IF e.response.has_expires_in THEN e.response.expires_in ELSE 3600
        margin == IF expires_in - 15 > 0 THEN expires_in - 15 ELSE 0
    IN /\ e.fetched <=> ~usable
       /\ usable => /\ e.raised = NONE
                    /\ e.returned = e.cache_before.accessToken
                    /\ e.cache_after = e.cache_before
       /\ (~usable /\ e.response.status = 200 /\ Truthy(e.response.accessToken)) =>
            /\ e.raised = NONE
            /\ e.returned = e.response.accessToken
            /\ e.cache_after.state = "json"
            /\ e.cache_after.accessToken = e.response.accessToken
            /\ e.cache_after.expires_at = e.time + margin
       /\ (~usable /\ ~(e.response.status = 200 /\ Truthy(e.response.accessToken))) =>
            /\ e.raised # NONE
            /\ e.returned = NONE
            /\ e.cache_after = e.cache_before
       /\ e.raised = NONE => Truthy(e.returned)
       /\ k = Len(token_calls) => cache = e.cache_after

\* A token fetched at second 0 with expires_in = 16 was cached until second
\* 1; the call at second 1, without force_refresh, found it expired and
\* fetched a new one.
C25_Witness ==
  /\ Len(token_calls) = 2
  /\ token_calls[1].fetched /\ token_calls[1].time = 0
  /\ token_calls[1].cache_after.expires_at = 1
  /\ ~token_calls[2].force_refresh /\ token_calls[2].time = 1
  /\ token_calls[2].fetched /\ token_calls[2].returned = "token2"

\* A call that was answered from the cache.
C25_WitnessCached ==
  /\ Len(token_calls) = 2
  /\ token_calls[1].fetched /\ token_calls[1].returned = "token1"
  /\ ~token_calls[2].fetched /\ token_calls[2].returned = "token1"

\* The Orders index holds an active order of the client for day d.
IndexHolds(client_id, d) ==
  \E k \in 1..Len(scheduler.orders) :
    /\ scheduler.orders[k].client_id = client_id
    /\ DayOfCell(scheduler.orders[k].order_date) = d
    /\ scheduler.orders[k].order_status \in {"PENDING", "CONFIRMED", "IN_PROGRESS"}

\* The orders generate_orders_for_client returned for day d.
ReturnedFor(d) ==
  SelectSeq(schedule_call.returned, LAMBDA o : o.order_date = isoformat(d))

\* C26: for a known client with a known restaurant,
\* generate_orders_for_client returns no order for a requested date for
\* which the Orders index already holds an order of that client with status
\* PENDING, CONFIRMED or IN_PROGRESS, and exactly one order, with status
\* PENDING, for every other requested date.
C26_NoDuplicateForIndexedDate ==
  (/\ schedule_call.made
   /\ schedule_call.client_id \in DOMAIN scheduler.clients
   /\ scheduler.clients[schedule_call.client_id].restaurant_id \in DOMAIN scheduler.restaurants) =>
    \A j \in 1..Len(schedule_call.order_dates) :
      LET d == schedule_call.order_dates[j]
      IN IF IndexHolds(schedule_call.client_id, d)
           THEN ReturnedFor(d) = <<>>
           ELSE /\ Len(ReturnedFor(d)) = 1
                /\ ReturnedFor(d)[1].order_status = "PENDING"
                /\ ReturnedFor(d)[1].client_id = schedule_call.client_id

C27_WitnessRejected ==
  /\ qi = 1
  /\ row_to_payload_raises(filtered_orders[1])
  /\ validate_row(filtered_orders[1]) # NONE
  /\ QuoteCalls = <<>>

\* C28: every quote success process_orders_final produces carries in
\* client_details the name, phone and e-mail of its source row, all three
\* non-empty; the defaults "Unknown Client", "Unknown Phone" and "Unknown
\* Email" are never used, because a row that lacks one of the three columns
\* does not pass validate_row.
C28_SuccessHasRowContact ==
  mode = "quote" =>
    \A k \in 1..Len(successes) :
      LET row == filtered_orders[successes[k].index]
          cd == successes[k].client_details
      IN /\ successes[k].row = row
         /\ validate_row(row) = NONE
         /\ ~MissingField(row, "client_name")
         /\ ~MissingField(row, "client_phone")
         /\ ~MissingField(row, "client_email")
         /\ cd.name = row.client_name /\ Truthy(cd.name) /\ cd.name # "Unknown Client"
         /\ cd.phone = row.client_phone /\ Truthy(cd.phone) /\ cd.phone # "Unknown Phone"
         /\ cd.email = row.client_email /\ Truthy(cd.email) /\ cd.email # "Unknown Email"

\* The stage returned over a row without e-mail and a complete row: one
\* failure, one success with the complete row's contact.
C28_Witness ==
  /\ mode = "quote" /\ pc = "done"
  /\ filtered_orders = <<RowNoEmail, RowBob>>
  /\ Len(failures) = 1 /\ failures[1].index = 1
  /\ Len(successes) = 1 /\ successes[1].index = 2
  /\ successes[1].client_details.email = "bob@y.org"

\* C29: a daily run with no row due today (always so on Saturday and
\* Sunday) makes no carrier call and returns at once; a daily run whose
\* quote stage returned no success makes no order call and returns the
\* quote stage's failure list as its failed_orders.
C29_NothingDueNothingSent ==
  mode = "daily" =>
    /\ weekday \in {5, 6} => filtered_orders = <<>>
    /\ (pc # "filter" /\ filtered_orders = <<>>) =>
         /\ log = <<>>
         /\ pc = "done" /\ result.kind = "no_orders"
         /\ result.total_processed = 0
         /\ result.successful_orders = <<>> /\ result.failed_orders = <<>>
    /\ (pc \in {"order", "done"} /\ filtered_orders # <<>> /\ successes = <<>>) =>
         /\ OrderCalls = <<>>
         /\ pc = "done" /\ result.kind = "quote_failed"
         /\ result.failed_orders = failures
         /\ result.successful_orders = <<>>
         /\ Len(failures) = Len(filtered_orders)

\* A Saturday run over two rows that ended without a call.
C29_Witness ==
  /\ mode = "daily" /\ weekday = 5
  /\ Len(orders) = 2
  /\ pc = "done" /\ result.kind = "no_orders"
  /\ log = <<>>

\* A Monday run whose two quote calls both failed: no order call, and the
\* two failures returned.
C29_WitnessNoQuote ==
  /\ mode = "daily" /\ weekday = 0
  /\ pc = "done" /\ result.kind = "quote_failed"
  /\ Len(QuoteCalls) = 2 /\ OrderCalls = <<>>
  /\ Len(result.failed_orders) = 2

\* The run has ended: it returned, or an exception left it.
RunOver == pc \in {"done", "crashed"}

\* Every due row was visited by the quote stage once and in input order,
\* and every context by the order stage once and in input order.
VisitedEachOnce ==
  /\ qi = Len(filtered_orders)
  /\ Range(Indexes(successes)) \cup Range(Indexes(failures)) = 1..Len(filtered_orders)
  /\ Len(successes) + Len(failures) = Len(filtered_orders)
  /\ Ascending(Indexes(successes)) /\ Ascending(Indexes(failures))
  /\ oi = Len(quote_data_list)
  /\ Range(Indexes(successful_orders)) \cup Range(Indexes(failed_orders)) = 1..Len(quote_data_list)
  /\ Len(successful_orders) + Len(failed_orders) = Len(quote_data_list)
  /\ Ascending(Indexes(successful_orders)) /\ Ascending(Indexes(failed_orders))

\* C30: whatever the carrier does on each call, a daily run ends, and when
\* it has ended every due row has been visited exactly once, in input
\* order, by the quote stage and every context exactly once, in input
\* order, by the order stage.
C30_TerminatesHavingVisitedAll ==
  /\ <>RunOver
  /\ [](mode = "daily" /\ RunOver => VisitedEachOnce)

====
